---- MODULE Spec2Model ----
(***************************************************************************)
(* Interview-scheduling service: slot booking (core_logic/src/db.rs),      *)
(* candidate-review voting (core_logic/src/db.rs) and the broadcast        *)
(* fan-out (core_logic/src/db.rs, api_server, telegram_bot).               *)
(*                                                                         *)
(* Every database statement of a handler is one step: the handlers are     *)
(* async functions over a connection pool, so other requests run between   *)
(* two statements of the same handler.  A single SQL statement is atomic.  *)
(***************************************************************************)
EXTENDS Integers, Sequences, FiniteSets, TLC

\* ------------------------------------------------------------------ bounds
NumRecipients == 3
NumSlots == 2
MaxCap == 2
NumClients == 2
NumReviewers == 2
NumCandidates == 2
NumBroadcasts == 2
NumTargets == 2
MaxDeliveries == 2
MaxClock == 2
NumWorkers == 2
MaxCommands == 2
MaxRetryCount == 2
NumTimes == 2
NumPlaces == 2
NumTags == 3

Recipients == 1..NumRecipients
SlotIds == 1..NumSlots
Clients == 1..NumClients
\* start times and venues a slot can be given
Times == 1..NumTimes
Places == 1..NumPlaces
\* one task per concurrent request; the capacity race runs one per recipient
Tasks == 1..(IF NumClients > NumRecipients THEN NumClients ELSE NumRecipients)

VARIABLES
    slots,        \* table slots: id -> [exists, max_user, time, place]
    records,      \* table records as a bag: <<telegram_id, slot_id>> -> number of rows
    nextSlotId,   \* next id the slots table hands out
    bk,           \* per request: position in the handler, arguments, locals, result
    pre,          \* history: table records when the latest sequential Book call began
    votes,        \* table votes: rows [id, survey_id, voter, decision, comment]
    user_roles,   \* table user_roles: reviewer -> role (1 = responsible)
    vt,           \* per reviewer: position in get_next_survey / handle_vote, locals, result
    broadcast_events,     \* table broadcast_events, in insertion order
    broadcast_summaries,  \* table broadcast_summaries: id -> row
    broadcast_messages,   \* table broadcast_messages: rows
    events,       \* broker queue of the events exchange
    commands,     \* broker queue of delivery commands
    ew,           \* the event worker: position, delivery in hand, summary read
    api,          \* the operator's request in flight: position, arguments, summary read
    now,          \* the clock chrono::Utc::now() reads
    hist,         \* history: per broadcast, events enqueued and deliveries handled
    dw,           \* the delivery workers: position, command in hand, counts and summary read
    deliveries,   \* the broker's deliveries by tag: queue, payload, state, ack calls, acks
    cl            \* the consumer loops: position, delivery tag in hand, parse result

bookingVars == <<slots, records, nextSlotId, bk, pre>>
votingVars == <<votes, user_roles, vt>>
broadcastVars == <<broadcast_events, broadcast_summaries, broadcast_messages, events,
                   commands, ew, api, now, hist, dw>>
consumerVars == <<deliveries, cl>>
notBooking == <<votingVars, broadcastVars, consumerVars>>
notVoting == <<bookingVars, broadcastVars, consumerVars>>
notBroadcast == <<bookingVars, votingVars, consumerVars>>
notConsumer == <<bookingVars, votingVars, broadcastVars>>
vars == <<slots, records, nextSlotId, bk, pre, votes, user_roles, vt, broadcast_events,
          broadcast_summaries, broadcast_messages, events, commands, ew, api, now, hist,
          dw, deliveries, cl>>

\* ------------------------------------------------------------------ booking store
NoRecords == [p \in Recipients \X SlotIds |-> 0]
NoResult == [kind |-> "none", max_users |-> 0, current_count |-> 0]
Result(k) == [kind |-> k, max_users |-> 0, current_count |-> 0]
\* UpdateSlotRequest: an Option is the empty set (None) or a singleton (Some)
NoPayload == [start_time |-> {}, place |-> {}, max_users |-> {}]
CapacityOnly(cap) == [start_time |-> {}, place |-> {}, max_users |-> {cap}]
Payloads == [start_time : {{}} \cup {{x} : x \in Times},
             place : {{}} \cup {{x} : x \in Places},
             max_users : {{}} \cup {{x} : x \in 0..MaxCap}]
Some(o) == CHOOSE x \in o : TRUE
NoSlot == [exists |-> FALSE, max_user |-> 0, time |-> 0, place |-> 0]
IdleTask == [pc |-> "idle", op |-> "none", tg |-> 0, slot |-> 0, req |-> NoPayload,
             cnt |-> 0, res |-> NoResult, limit |-> 0, at |-> 0, best |-> << >>]

\* `as u16` of an i64
U16(x) == x % 65536

RECURSIVE CountUpTo(_, _, _)
CountUpTo(recs, s, n) ==
    IF n = 0 THEN 0 ELSE recs[<<n, s>>] + CountUpTo(recs, s, n - 1)

\* SELECT COUNT(*) FROM records WHERE slot_id = s
BookedCount(recs, s) == CountUpTo(recs, s, NumRecipients)

RECURSIVE RowsUpTo(_, _, _)
RowsUpTo(recs, r, n) ==
    IF n = 0 THEN 0 ELSE recs[<<r, n>>] + RowsUpTo(recs, r, n - 1)

\* number of rows of records with telegram_id = r
RowsOf(recs, r) == RowsUpTo(recs, r, NumSlots)

\* DELETE FROM records WHERE telegram_id = r
DeletePriorKeep(recs, r) == recs
DeletePrior(recs, r) ==
    [p \in Recipients \X SlotIds |-> IF p[1] = r THEN 0 ELSE recs[p]]

\* DELETE FROM records WHERE slot_id = s
DeleteOfSlot(recs, s) ==
    [p \in Recipients \X SlotIds |-> IF p[2] = s THEN 0 ELSE recs[p]]

\* Schema of table records (migrations): no constraint beyond the row id, so no
\* insert of a (telegram_id, slot_id) row is refused by the table itself.
RecordsRejects(recs, r, s) == FALSE

\* INSERT INTO records .. SELECT .. WHERE (count of s) < (max_user of s); one statement.
\* A missing slot makes the sub-select NULL and the comparison false.
ConditionalInsertUnchecked(recs, sl, r, s) == [recs EXCEPT ![<<r, s>>] = @ + 1]
ConditionalInsertOffByOne(recs, sl, r, s) ==
    IF sl[s].exists /\ BookedCount(recs, s) <= sl[s].max_user
    THEN [recs EXCEPT ![<<r, s>>] = @ + 1]
    ELSE recs
ConditionalInsert(recs, sl, r, s) ==
    IF sl[s].exists /\ BookedCount(recs, s) < sl[s].max_user
    THEN [recs EXCEPT ![<<r, s>>] = @ + 1]
    ELSE recs

\* ------------------------------------------------------------------ Book
\* create_or_update_booking, first statement: delete the caller's prior rows
BookCall(t, r, s) ==
    /\ bk[t].pc = "idle"
    /\ records' = DeletePrior(records, r)
    /\ bk' = [bk EXCEPT ![t] = [IdleTask EXCEPT !.pc = "bk_insert", !.op = "Book",
                                               !.tg = r, !.slot = s]]
    /\ UNCHANGED <<slots, nextSlotId>>
    /\ UNCHANGED notBooking

BookDelete(t, r, s) == BookCall(t, r, s) /\ UNCHANGED pre

\* the same call, the history variable remembering the table it found
BookDeleteSeq(t, r, s) == BookCall(t, r, s) /\ pre' = records

\* second statement: the conditional insert; rows_affected decides the branch
BookInsert(t) ==
    /\ bk[t].pc = "bk_insert"
    /\ LET after == ConditionalInsert(records, slots, bk[t].tg, bk[t].slot) IN
       IF after /= records /\ RecordsRejects(records, bk[t].tg, bk[t].slot)
       THEN /\ records' = records
            /\ bk' = [bk EXCEPT ![t].pc = "done", ![t].res = Result("Database")]
       ELSE /\ records' = after
            /\ bk' = [bk EXCEPT ![t].pc = IF after = records THEN "bk_count" ELSE "done",
                                ![t].res = IF after = records THEN NoResult ELSE Result("Ok")]
    /\ UNCHANGED <<slots, nextSlotId, pre>>
    /\ UNCHANGED notBooking

\* zero rows inserted: re-read the current count
BookReadCount(t) ==
    /\ bk[t].pc = "bk_count"
    /\ bk' = [bk EXCEPT ![t].pc = "bk_max", ![t].cnt = BookedCount(records, bk[t].slot)]
    /\ UNCHANGED <<slots, records, nextSlotId, pre>>
    /\ UNCHANGED notBooking

\* then max_user; fetch_one on a missing slot is RowNotFound, `?` makes it
\* BookingError::Database
BookReadMax(t) ==
    /\ bk[t].pc = "bk_max"
    /\ bk' = [bk EXCEPT ![t].pc = "done",
                        ![t].res = IF slots[bk[t].slot].exists
                                   THEN [kind |-> "SlotFull",
                                         max_users |-> U16(slots[bk[t].slot].max_user),
                                         current_count |-> U16(bk[t].cnt)]
                                   ELSE Result("Database")]
    /\ UNCHANGED <<slots, records, nextSlotId, pre>>
    /\ UNCHANGED notBooking

\* the handler returns; the request slot is free for the next request
Return(t) ==
    /\ bk[t].pc = "done"
    /\ bk' = [bk EXCEPT ![t] = IdleTask]
    /\ UNCHANGED <<slots, records, nextSlotId, pre>>
    /\ UNCHANGED notBooking

\* ------------------------------------------------------------------ operator
\* create_slot behind the HTTP validation max_users /= 0
CreateSlot(t, time, place, cap) ==
    /\ bk[t].pc = "idle"
    /\ nextSlotId <= NumSlots
    /\ cap >= 1
    /\ slots' = [slots EXCEPT ![nextSlotId] = [exists |-> TRUE, max_user |-> cap,
                                               time |-> time, place |-> place]]
    /\ nextSlotId' = nextSlotId + 1
    /\ UNCHANGED <<records, bk, pre>>
    /\ UNCHANGED notBooking

\* the comparison of update_slot: max_users < current_booked as u16
CapacityTooLowOffByOne(max_users, current_booked) == max_users + 1 < U16(current_booked)
CapacityTooLow(max_users, current_booked) == max_users < U16(current_booked)

\* the statement update_slot runs next: one UPDATE per field the payload carries
AfterPlace(payload) == IF payload.max_users /= {} THEN "upd_write" ELSE "upd_read"
AfterTime(payload) == IF payload.place /= {} THEN "upd_place" ELSE AfterPlace(payload)
AfterCheck(payload) == IF payload.start_time /= {} THEN "upd_time" ELSE AfterTime(payload)

\* update_slot: with max_users = Some(cap) count and compare, and return the error
\* before any UPDATE; otherwise go on to the UPDATEs
UpdateSlotCheck(t, s, payload) ==
    /\ bk[t].pc = "idle"
    /\ LET current_booked == BookedCount(records, s) IN
       bk' = [bk EXCEPT ![t] =
                IF /\ payload.max_users /= {}
                   /\ CapacityTooLow(Some(payload.max_users), current_booked)
                THEN [IdleTask EXCEPT !.pc = "done", !.op = "UpdateSlot", !.slot = s,
                                      !.req = payload, !.res = Result("Rejected")]
                ELSE [IdleTask EXCEPT !.pc = AfterCheck(payload), !.op = "UpdateSlot",
                                      !.slot = s, !.req = payload]]
    /\ UNCHANGED <<slots, records, nextSlotId, pre>>
    /\ UNCHANGED notBooking

\* UPDATE slots SET time = ? WHERE id = ?
UpdateSlotTime(t) ==
    /\ bk[t].pc = "upd_time"
    /\ slots' = [slots EXCEPT ![bk[t].slot] =
                    IF @.exists THEN [@ EXCEPT !.time = Some(bk[t].req.start_time)] ELSE @]
    /\ bk' = [bk EXCEPT ![t].pc = AfterTime(bk[t].req)]
    /\ UNCHANGED <<records, nextSlotId, pre>>
    /\ UNCHANGED notBooking

\* UPDATE slots SET place = ? WHERE id = ?
UpdateSlotPlace(t) ==
    /\ bk[t].pc = "upd_place"
    /\ slots' = [slots EXCEPT ![bk[t].slot] =
                    IF @.exists THEN [@ EXCEPT !.place = Some(bk[t].req.place)] ELSE @]
    /\ bk' = [bk EXCEPT ![t].pc = AfterPlace(bk[t].req)]
    /\ UNCHANGED <<records, nextSlotId, pre>>
    /\ UNCHANGED notBooking

\* UPDATE slots SET max_user = ? WHERE id = ?  (no row, no change)
UpdateSlotWrite(t) ==
    /\ bk[t].pc = "upd_write"
    /\ slots' = [slots EXCEPT ![bk[t].slot] =
                    IF @.exists THEN [@ EXCEPT !.max_user = Some(bk[t].req.max_users)]
                    ELSE @]
    /\ bk' = [bk EXCEPT ![t].pc = "upd_read"]
    /\ UNCHANGED <<records, nextSlotId, pre>>
    /\ UNCHANGED notBooking

\* get_slot(..).unwrap(): the updated slot is read back; a missing slot panics
UpdateSlotRead(t) ==
    /\ bk[t].pc = "upd_read"
    /\ bk' = [bk EXCEPT ![t].pc = "done",
                        ![t].res = IF slots[bk[t].slot].exists
                                   THEN [kind |-> "Ok",
                                         max_users |-> slots[bk[t].slot].max_user,
                                         current_count |-> 0]
                                   ELSE Result("Panic")]
    /\ UNCHANGED <<slots, records, nextSlotId, pre>>
    /\ UNCHANGED notBooking

\* delete_slot: first the bookings of the slot
DeleteSlotRecords(t, s) ==
    /\ bk[t].pc = "idle"
    /\ records' = DeleteOfSlot(records, s)
    /\ bk' = [bk EXCEPT ![t] = [IdleTask EXCEPT !.pc = "del_slot", !.op = "DeleteSlot",
                                               !.slot = s]]
    /\ UNCHANGED <<slots, nextSlotId, pre>>
    /\ UNCHANGED notBooking

\* then the slot itself
DeleteSlotRow(t) ==
    /\ bk[t].pc = "del_slot"
    /\ slots' = [slots EXCEPT ![bk[t].slot] = NoSlot]
    /\ bk' = [bk EXCEPT ![t].pc = "done", ![t].res = Result("Ok")]
    /\ UNCHANGED <<records, nextSlotId, pre>>
    /\ UNCHANGED notBooking

\* delete_booking: one row, by id
DeleteBooking(t, r, s) ==
    /\ bk[t].pc = "idle"
    /\ records[<<r, s>>] > 0
    /\ records' = [records EXCEPT ![<<r, s>>] = @ - 1]
    /\ UNCHANGED <<slots, nextSlotId, bk, pre>>
    /\ UNCHANGED notBooking

\* ------------------------------------------------------------------ votes store
MIN_VOTES_FOR_REVIEW == 3

Reviewers == 1..NumReviewers
\* voters whose finished votes are already in the table when the reviewers arrive
EarlierVoters == (NumReviewers + 1)..(NumReviewers + MIN_VOTES_FOR_REVIEW)
\* the external API's user list, in its order; a survey id is the candidate's id
Candidates == 1..NumCandidates

\* reserved comments 'V obrabotke' (claim) and 'Initsializatsiya' (init); SQL NULL
Processing == "processing"
Initialization == "initialization"
NullComment == "NULL"

\* no row id (fetch_optional found nothing)
NoId == <<0, 0, 0>>
NoSurvey == [kind |-> "none", survey |-> 0]
Handed(c) == [kind |-> "Survey", survey |-> c]
NoWork == [kind |-> "NoWork", survey |-> 0]
Failed == [kind |-> "Error", survey |-> 0]
NoRequest == [survey |-> 0, decision |-> 0, comment |-> NullComment]
\* SurveyVoteSummary, before anything is read
NoVoteSummary == [total_votes |-> 0, approve_votes |-> 0, reject_votes |-> 0,
                  status |-> "none", has_responsible_vote |-> FALSE]
IdleReviewer == [pc |-> "idle", op |-> "none", who |-> 0, role |-> 0, voted |-> {},
                 counts |-> [c \in Candidates |-> 0], pick |-> 0, existing |-> NoId,
                 vote_id |-> NoId, req |-> NoRequest, res |-> NoSurvey,
                 sm |-> NoVoteSummary]

\* what a reviewer may submit: (decision, comment)
VoteInputs == {<<1, "text">>}

RowsFor(vs, c) == {r \in vs : r.survey_id = c}
\* COUNT(*)
TotalCount(vs, c) == Cardinality(RowsFor(vs, c))
\* COUNT(CASE WHEN comment IS NULL OR (comment != claim AND comment != init) ..)
RealCount(vs, c) ==
    Cardinality({r \in RowsFor(vs, c) :
                    r.comment = NullComment
                    \/ (r.comment /= Processing /\ r.comment /= Initialization)})
\* COUNT(CASE WHEN comment = claim ..)
ProcessingCount(vs, c) == Cardinality({r \in RowsFor(vs, c) : r.comment = Processing})

\* UNIQUE(survey_id, voter_telegram_id) of table votes (migrations)
UniqueViolation(vs, c, v) == \E r \in vs : r.survey_id = c /\ r.voter = v

\* last_insert_rowid(): an id no row has and no running request still holds.  Ids are
\* only ever compared for equality, so a fresh id is named after the row it is given to.
NewVoteId(c, v) ==
    LET used == {r.id : r \in votes} \cup {vt[u].existing : u \in Reviewers}
                    \cup {vt[u].vote_id : u \in Reviewers}
    IN  <<c, v, CHOOSE n \in 1..(Cardinality(used) + 1) :
                    /\ <<c, v, n>> \notin used
                    /\ \A k \in 1..(n - 1) : <<c, v, k>> \in used>>

\* DELETE FROM votes WHERE voter_telegram_id = v AND comment = claim
ClearLocks(vs, v) == {r \in vs : ~(r.voter = v /\ r.comment = Processing)}

\* UPDATE votes SET decision = ?, comment = ? WHERE id = ?
UpdateDecisionOnly(vs, id, decision, comment) ==
    {IF r.id = id THEN [r EXCEPT !.decision = decision] ELSE r : r \in vs}
UpdateVoteRow(vs, id, decision, comment) ==
    {IF r.id = id THEN [r EXCEPT !.decision = decision, !.comment = comment] ELSE r :
        r \in vs}

Abs(x) == IF x < 0 THEN -x ELSE x

\* a candidate is open to an ordinary reviewer
EligibleUpToK(real_count, processing_count) ==
    real_count <= MIN_VOTES_FOR_REVIEW /\ processing_count = 0
Eligible(real_count, processing_count) ==
    real_count < MIN_VOTES_FOR_REVIEW /\ processing_count = 0

\* find_survey_for_regular_user: one grouped query, filter, stable sort by distance
\* to MIN_VOTES_FOR_REVIEW, first element (0 stands for None)
\* the filter on the caller's own rows left out
RegularCandidatesAll(vs, voted) ==
    {c \in Candidates : Eligible(RealCount(vs, c), ProcessingCount(vs, c))}
RegularCandidates(vs, voted) ==
    {c \in Candidates \ voted : Eligible(RealCount(vs, c), ProcessingCount(vs, c))}

\* the sort turned round: the candidate farthest from MIN_VOTES_FOR_REVIEW comes first
FindRegularFarthest(vs, voted) ==
    LET cands == RegularCandidates(vs, voted)
        dist(c) == Abs(MIN_VOTES_FOR_REVIEW - RealCount(vs, c))
    IN  IF cands = {} THEN 0
        ELSE CHOOSE c \in cands :
                \A d \in cands : dist(c) > dist(d) \/ (dist(c) = dist(d) /\ c <= d)

FindRegular(vs, voted) ==
    LET cands == RegularCandidates(vs, voted)
        dist(c) == Abs(MIN_VOTES_FOR_REVIEW - RealCount(vs, c))
    IN  IF cands = {} THEN 0
        ELSE CHOOSE c \in cands :
                \A d \in cands : dist(c) < dist(d) \/ (dist(c) = dist(d) /\ c <= d)

\* surveys holding any row of a voter whose role is 1
ResponsibleVotes(vs, roles) ==
    {r.survey_id : r \in {q \in vs : q.voter \in Reviewers /\ roles[q.voter] = 1}}

\* find_survey_for_responsible_user: first candidate in list order with enough rows
\* (as counted earlier) and no row of a responsible voter
ResponsibleCandidates(counts, responsible) ==
    {c \in Candidates : counts[c] >= MIN_VOTES_FOR_REVIEW /\ c \notin responsible}

FindResponsible(counts, responsible) ==
    LET ok == ResponsibleCandidates(counts, responsible)
    IN  IF ok = {} THEN 0 ELSE CHOOSE c \in ok : \A d \in ok : c <= d

\* ------------------------------------------------------------------ get_next_survey
\* get_next_survey(voter_telegram_id = u) begins in request v: role read and external
\* user list fetched; the call may also come from handle_vote
GnsStartAs(v, u) ==
    /\ vt[v].pc \in {"idle", "cv_next"}
    /\ vt' = [vt EXCEPT ![v] = [IdleReviewer EXCEPT
                !.pc = "gns_voted",
                !.op = IF vt[v].pc = "idle" THEN "Next" ELSE "Vote",
                !.who = u,
                !.role = user_roles[u]]]
    /\ UNCHANGED <<votes, user_roles>>
    /\ UNCHANGED notVoting

\* one request per reviewer: request v is reviewer v's
GnsStart(v) == GnsStartAs(v, v)

\* the external API fails: empty response
GnsApiDown(v) ==
    /\ vt[v].pc \in {"idle", "cv_next"}
    /\ vt' = [vt EXCEPT ![v] = [IdleReviewer EXCEPT
                !.pc = "done",
                !.op = IF vt[v].pc = "idle" THEN "Next" ELSE "Vote",
                !.who = v,
                !.role = user_roles[v],
                !.res = NoWork]]
    /\ UNCHANGED <<votes, user_roles>>
    /\ UNCHANGED notVoting

\* SELECT survey_id FROM votes WHERE voter_telegram_id = v
GnsReadVoted(v) ==
    /\ vt[v].pc = "gns_voted"
    /\ vt' = [vt EXCEPT ![v].pc = "gns_count",
                        ![v].voted = {r.survey_id : r \in {q \in votes : q.voter = vt[v].who}}]
    /\ UNCHANGED <<votes, user_roles>>
    /\ UNCHANGED notVoting

\* SELECT COUNT(*) .. comment = claim; clear only when there are some
GnsCountLocks(v) ==
    /\ vt[v].pc = "gns_count"
    /\ vt' = [vt EXCEPT ![v].pc =
                IF \E r \in votes : r.voter = vt[v].who /\ r.comment = Processing
                THEN "gns_clear"
                ELSE IF vt[v].role = 1 THEN "gns_counts" ELSE "gns_find"]
    /\ UNCHANGED <<votes, user_roles>>
    /\ UNCHANGED notVoting

GnsClear(v) ==
    /\ vt[v].pc = "gns_clear"
    /\ votes' = ClearLocks(votes, vt[v].who)
    /\ vt' = [vt EXCEPT ![v].pc = IF vt[v].role = 1 THEN "gns_counts" ELSE "gns_find"]
    /\ UNCHANGED user_roles
    /\ UNCHANGED notVoting

\* ordinary reviewer: the whole choice rests on one query
GnsFindRegular(v) ==
    /\ vt[v].pc = "gns_find"
    /\ LET c == FindRegular(votes, vt[v].voted) IN
       vt' = [vt EXCEPT ![v].pick = c,
                        ![v].voted = {},
                        ![v].pc = IF c = 0 THEN "done" ELSE "gns_clear2",
                        ![v].res = IF c = 0 THEN NoWork ELSE NoSurvey]
    /\ UNCHANGED <<votes, user_roles>>
    /\ UNCHANGED notVoting

\* responsible reviewer, first query: rows per survey
GnsRespCounts(v) ==
    /\ vt[v].pc = "gns_counts"
    /\ vt' = [vt EXCEPT ![v].pc = "gns_resp",
                        ![v].voted = {},
                        ![v].counts = [c \in Candidates |-> TotalCount(votes, c)]]
    /\ UNCHANGED <<votes, user_roles>>
    /\ UNCHANGED notVoting

\* second query: surveys a responsible voter has a row on; then the choice
GnsRespPick(v) ==
    /\ vt[v].pc = "gns_resp"
    /\ LET c == FindResponsible(vt[v].counts, ResponsibleVotes(votes, user_roles)) IN
       vt' = [vt EXCEPT ![v].pick = c,
                        ![v].counts = [d \in Candidates |-> 0],
                        ![v].pc = IF c = 0 THEN "done" ELSE "gns_clear2",
                        ![v].res = IF c = 0 THEN NoWork ELSE NoSurvey]
    /\ UNCHANGED <<votes, user_roles>>
    /\ UNCHANGED notVoting

\* a survey was found: clear the reviewer's claims once more
GnsClearAgain(v) ==
    /\ vt[v].pc = "gns_clear2"
    /\ votes' = ClearLocks(votes, vt[v].who)
    /\ vt' = [vt EXCEPT ![v].pc = "gns_claim"]
    /\ UNCHANGED user_roles
    /\ UNCHANGED notVoting

\* INSERT the claim row; a unique violation gives the empty response
GnsClaim(v) ==
    /\ vt[v].pc = "gns_claim"
    /\ IF UniqueViolation(votes, vt[v].pick, vt[v].who)
       THEN /\ votes' = votes
            /\ vt' = [vt EXCEPT ![v].pc = "done", ![v].pick = 0, ![v].res = NoWork]
       ELSE /\ votes' = votes \cup {[id |-> NewVoteId(vt[v].pick, vt[v].who),
                                     survey_id |-> vt[v].pick,
                                     voter |-> vt[v].who, decision |-> 0,
                                     comment |-> Processing]}
            /\ vt' = [vt EXCEPT ![v].pc = "gns_votes"]
    /\ UNCHANGED user_roles
    /\ UNCHANGED notVoting

\* get_votes_by_survey, then the response naming the survey
GnsReadVotes(v) ==
    /\ vt[v].pc = "gns_votes"
    /\ vt' = [vt EXCEPT ![v].pc = "done", ![v].pick = 0, ![v].res = Handed(vt[v].pick)]
    /\ UNCHANGED <<votes, user_roles>>
    /\ UNCHANGED notVoting

\* the response is sent
Respond(v) ==
    /\ vt[v].pc = "done"
    /\ vt' = [vt EXCEPT ![v] = IdleReviewer]
    /\ UNCHANGED <<votes, user_roles>>
    /\ UNCHANGED notVoting

\* ------------------------------------------------------------------ handle_vote
\* create_vote: look for the reviewer's claim row on the survey
CvSelect(v, c, in) ==
    /\ vt[v].pc = "idle"
    /\ LET found == {r \in votes : r.survey_id = c /\ r.voter = v /\ r.comment = Processing}
       IN vt' = [vt EXCEPT ![v] = [IdleReviewer EXCEPT
                    !.pc = "cv_write", !.op = "Vote",
                    !.req = [survey |-> c, decision |-> in[1], comment |-> in[2]],
                    !.existing = IF found = {} THEN NoId
                                 ELSE (CHOOSE r \in found : TRUE).id]]
    /\ UNCHANGED <<votes, user_roles>>
    /\ UNCHANGED notVoting

\* update the claim row found, or insert a new row
CvWrite(v) ==
    /\ vt[v].pc = "cv_write"
    /\ IF vt[v].existing /= NoId
       THEN /\ votes' = UpdateVoteRow(votes, vt[v].existing, vt[v].req.decision,
                                      vt[v].req.comment)
            /\ vt' = [vt EXCEPT ![v].pc = "cv_read", ![v].vote_id = vt[v].existing]
       ELSE IF UniqueViolation(votes, vt[v].req.survey, v)
            THEN /\ votes' = votes
                 /\ vt' = [vt EXCEPT ![v] = [IdleReviewer EXCEPT
                                !.pc = "done", !.op = "Vote", !.res = Failed]]
            ELSE /\ votes' = votes \cup {[id |-> NewVoteId(vt[v].req.survey, v),
                                          survey_id |-> vt[v].req.survey,
                                          voter |-> v, decision |-> vt[v].req.decision,
                                          comment |-> vt[v].req.comment]}
                 /\ vt' = [vt EXCEPT ![v].pc = "cv_read", ![v].vote_id = NewVoteId(vt[v].req.survey, v)]
    /\ UNCHANGED user_roles
    /\ UNCHANGED notVoting

\* read the row back by id; fetch_one fails when it is gone
CvRead(v) ==
    /\ vt[v].pc = "cv_read"
    /\ vt' = [vt EXCEPT ![v] = [IdleReviewer EXCEPT
                !.op = "Vote",
                !.pc = IF \E r \in votes : r.id = vt[v].vote_id THEN "cv_next" ELSE "done",
                !.res = IF \E r \in votes : r.id = vt[v].vote_id THEN NoSurvey ELSE Failed]]
    /\ UNCHANGED <<votes, user_roles>>
    /\ UNCHANGED notVoting

\* ------------------------------------------------------------------ sync
\* sync_users_from_external_api, per user of the list: is there any row of the survey
SyncSelect(v, c) ==
    /\ \/ vt[v].pc = "idle" /\ c = 1
       \/ vt[v].pc = "sy_next" /\ c = vt[v].pick
    /\ vt' = [vt EXCEPT ![v] = [IdleReviewer EXCEPT
                !.op = "Sync", !.pick = c,
                !.pc = IF RowsFor(votes, c) /= {} THEN "sy_skip" ELSE "sy_insert"]]
    /\ UNCHANGED <<votes, user_roles>>
    /\ UNCHANGED notVoting

\* none: INSERT OR IGNORE the init row (voter 0, decision -1)
SyncInsert(v) ==
    /\ vt[v].pc = "sy_insert"
    /\ votes' = IF UniqueViolation(votes, vt[v].pick, 0)
                THEN votes
                ELSE votes \cup {[id |-> NewVoteId(vt[v].pick, 0), survey_id |-> vt[v].pick,
                                  voter |-> 0, decision |-> -1,
                                  comment |-> Initialization]}
    /\ vt' = [vt EXCEPT ![v].pc = "sy_skip"]
    /\ UNCHANGED user_roles
    /\ UNCHANGED notVoting

\* the loop moves to the next user, or the handler returns
SyncAdvance(v) ==
    /\ vt[v].pc = "sy_skip"
    /\ vt' = [vt EXCEPT ![v].pc = IF vt[v].pick < NumCandidates THEN "sy_next" ELSE "done",
                        ![v].pick = IF vt[v].pick < NumCandidates THEN vt[v].pick + 1 ELSE 0,
                        ![v].res = IF vt[v].pick < NumCandidates THEN NoSurvey
                                   ELSE [kind |-> "Synced", survey |-> 0]]
    /\ UNCHANGED <<votes, user_roles>>
    /\ UNCHANGED notVoting

\* ------------------------------------------------------------------ summary
\* rows the tally counts: comment IS NULL OR (comment != claim AND comment != init)
RealRows(vs, c) ==
    {r \in RowsFor(vs, c) :
        r.comment = NullComment
        \/ (r.comment /= Processing /\ r.comment /= Initialization)}

DecisionCount(vs, c, d) == Cardinality({r \in RealRows(vs, c) : r.decision = d})

\* GROUP BY decision: approve is the group of decision 1; every other group assigns
\* reject in turn, so the last group (groups come in ascending decision) stays
RejectVotes(vs, c) ==
    LET others == {r.decision : r \in RealRows(vs, c)} \ {1}
    IN  IF others = {} THEN 0
        ELSE DecisionCount(vs, c, CHOOSE d \in others : \A e \in others : e <= d)

\* any row of the survey by a voter whose user_roles row has role = 1
HasResponsibleVote(vs, roles, c) ==
    \E r \in RowsFor(vs, c) : r.voter \in Reviewers /\ roles[r.voter] = 1

StatusOf(has_responsible_vote, total_votes) ==
    IF has_responsible_vote THEN "Completed"
    ELSE IF total_votes >= MIN_VOTES_FOR_REVIEW THEN "ReadyForReview"
    ELSE "InProgress"

\* get_survey_vote_summary, first query: the tally
SummaryStats(v, c) ==
    /\ vt[v].pc = "idle"
    /\ vt' = [vt EXCEPT ![v] = [IdleReviewer EXCEPT
                !.pc = "sm_resp", !.op = "Summary", !.pick = c,
                !.sm = [NoVoteSummary EXCEPT
                          !.approve_votes = DecisionCount(votes, c, 1),
                          !.reject_votes = RejectVotes(votes, c),
                          !.total_votes = DecisionCount(votes, c, 1) + RejectVotes(votes, c)]]]
    /\ UNCHANGED <<votes, user_roles>>
    /\ UNCHANGED notVoting

\* second query: is there a row of a responsible voter; then the status
SummaryStatus(v) ==
    /\ vt[v].pc = "sm_resp"
    /\ LET has == HasResponsibleVote(votes, user_roles, vt[v].pick) IN
       vt' = [vt EXCEPT ![v].pc = "done",
                        ![v].res = [kind |-> "Summary", survey |-> vt[v].pick],
                        ![v].pick = 0,
                        ![v].sm = [@ EXCEPT !.has_responsible_vote = has,
                                            !.status = StatusOf(has, vt[v].sm.total_votes)]]
    /\ UNCHANGED <<votes, user_roles>>
    /\ UNCHANGED notVoting

\* rows of finished votes by earlier voters: n[c] of them on candidate c, the last of
\* the K a reject
EarlierVotes(n) ==
    {[id |-> <<c, NumReviewers + j, 1>>, survey_id |-> c, voter |-> NumReviewers + j,
      decision |-> IF j = MIN_VOTES_FOR_REVIEW THEN 0 ELSE 1, comment |-> NullComment] :
        <<c, j>> \in {p \in Candidates \X (1..MIN_VOTES_FOR_REVIEW) : p[2] <= n[p[1]]}}

VotingRest ==
    /\ votes = {}
    /\ user_roles = [v \in Reviewers |-> 0]
    /\ vt = [v \in Reviewers |-> IdleReviewer]

VotingInit ==
    /\ \E n \in [Candidates -> 0..MIN_VOTES_FOR_REVIEW] : votes = EarlierVotes(n)
    /\ \E role \in {0, 1} :
          user_roles = [v \in Reviewers |-> IF v = NumReviewers THEN role ELSE 0]
    /\ vt = [v \in Reviewers |-> IdleReviewer]

\* ------------------------------------------------------------------ broadcast store
BroadcastIds == 1..NumBroadcasts
Targets == 1..NumTargets

NoSummary == [exists |-> FALSE, total_users |-> 0, sent_count |-> 0, failed_count |-> 0,
              pending_count |-> 0, status |-> "none", started_at |-> 0, completed_at |-> 0]
NoEvent == [broadcast_id |-> 0, target_users |-> {}]
\* no BroadcastMessageRecord, no delivery command
NoMessage == [id |-> 0, broadcast_id |-> 0, telegram_id |-> 0, status |-> "none",
              error |-> "none", sent_at |-> 0, retry_count |-> 0, message_type |-> "none"]
NoCommand == [broadcast_id |-> 0, telegram_id |-> 0]
IdleApi == [pc |-> "idle", b |-> 0, users |-> {}, copy |-> NoSummary, res |-> "none",
            u |-> 0, msg |-> NoMessage, report |-> {}]
IdleWorker == [pc |-> "idle", ev |-> NoEvent, copy |-> NoSummary]
Workers == 1..NumWorkers
IdleDelivery == [pc |-> "idle", cmd |-> NoCommand, status |-> "none", sent_count |-> 0,
                 failed_count |-> 0, pending_count |-> 0, copy |-> NoSummary]

\* get_users_for_broadcast: Ok(Vec::new())
get_users_for_broadcast == << >>

\* uuid::Uuid::new_v4(): an id never handed out before
NewBroadcastId ==
    CHOOSE b \in BroadcastIds :
        /\ hist[b].created = 0
        /\ \A c \in BroadcastIds : hist[c].created = 0 => b <= c

HasFreeBroadcastId == \E b \in BroadcastIds : hist[b].created = 0

\* UPDATE broadcast_summaries SET sent_count, failed_count, pending_count, status,
\* started_at, completed_at WHERE id = b
update_broadcast_summary(sums, b, s) ==
    IF sums[b].exists
    THEN [sums EXCEPT ![b] = [@ EXCEPT !.sent_count = s.sent_count,
                                       !.failed_count = s.failed_count,
                                       !.pending_count = s.pending_count,
                                       !.status = s.status,
                                       !.started_at = s.started_at,
                                       !.completed_at = s.completed_at]]
    ELSE sums

\* the stored BroadcastCreated event of b, as published to the events exchange
CreatedEvent(b) ==
    LET i == CHOOSE j \in 1..Len(broadcast_events) : broadcast_events[j].broadcast_id = b
    IN  [broadcast_id |-> b, target_users |-> broadcast_events[i].target_users]

\* the delivery commands the event worker publishes, one per user of its list
RECURSIVE FanOut(_, _)
FanOut(users, b) ==
    IF users = << >> THEN << >>
    ELSE <<[broadcast_id |-> b, telegram_id |-> Head(users)]>> \o FanOut(Tail(users), b)

\* ------------------------------------------------------------------ CreateBroadcast
\* selected_external_users is None
CbNoUsers ==
    /\ api.pc = "idle"
    /\ api' = [IdleApi EXCEPT !.res = "error"]
    /\ UNCHANGED <<broadcast_events, broadcast_summaries, broadcast_messages, events,
                   commands, ew, now, hist>>
    /\ UNCHANGED dw
    /\ UNCHANGED notBroadcast

\* handle_create_broadcast: the BroadcastCreated event is saved (version 1)
CbSaveEvent(R) ==
    /\ api.pc = "idle"
    /\ HasFreeBroadcastId
    /\ broadcast_events' = Append(broadcast_events,
            [event_type |-> "BroadcastCreated", broadcast_id |-> NewBroadcastId,
             target_users |-> R, telegram_id |-> 0, version |-> 1])
    /\ api' = [IdleApi EXCEPT !.pc = "cb_summary", !.b = NewBroadcastId, !.users = R]
    /\ hist' = [hist EXCEPT ![NewBroadcastId].created = 1]
    /\ UNCHANGED <<broadcast_summaries, broadcast_messages, events, commands, ew, now>>
    /\ UNCHANGED dw
    /\ UNCHANGED notBroadcast

\* then the read model row: Pending, every recipient pending
CbCreateSummary ==
    /\ api.pc = "cb_summary"
    /\ broadcast_summaries' = [broadcast_summaries EXCEPT ![api.b] =
            [exists |-> TRUE, total_users |-> Cardinality(api.users), sent_count |-> 0,
             failed_count |-> 0, pending_count |-> Cardinality(api.users),
             status |-> "pending", started_at |-> 0, completed_at |-> 0]]
    /\ api' = [api EXCEPT !.pc = "cb_publish"]
    /\ UNCHANGED <<broadcast_events, broadcast_messages, events, commands, ew, now, hist>>
    /\ UNCHANGED dw
    /\ UNCHANGED notBroadcast

\* or the INSERT of the summary fails: `?` returns the error, the event stays stored
CbSummaryFail ==
    /\ api.pc = "cb_summary"
    /\ api' = [IdleApi EXCEPT !.res = "error"]
    /\ UNCHANGED <<broadcast_events, broadcast_summaries, broadcast_messages, events,
                   commands, ew, now, hist>>
    /\ UNCHANGED dw
    /\ UNCHANGED notBroadcast

\* create_broadcast handler: the event reaches the broker
CbPublish ==
    /\ api.pc = "cb_publish"
    /\ events' = Append(events, [broadcast_id |-> api.b, target_users |-> api.users])
    /\ hist' = [hist EXCEPT ![api.b].enqueued = 1]
    /\ api' = [IdleApi EXCEPT !.res = "ok"]
    /\ UNCHANGED <<broadcast_events, broadcast_summaries, broadcast_messages, commands, ew, now>>
    /\ UNCHANGED dw
    /\ UNCHANGED notBroadcast

\* or the publish fails, which is only logged
CbPublishFail ==
    /\ api.pc = "cb_publish"
    /\ api' = [IdleApi EXCEPT !.res = "ok"]
    /\ UNCHANGED <<broadcast_events, broadcast_summaries, broadcast_messages, events,
                   commands, ew, now, hist>>
    /\ UNCHANGED dw
    /\ UNCHANGED notBroadcast

\* the broker delivers a published event once more
Redeliver(b) ==
    /\ hist[b].enqueued >= 1
    /\ hist[b].enqueued < MaxDeliveries
    /\ events' = Append(events, CreatedEvent(b))
    /\ hist' = [hist EXCEPT ![b].enqueued = @ + 1]
    /\ UNCHANGED <<broadcast_events, broadcast_summaries, broadcast_messages, commands, ew,
                   api, now>>
    /\ UNCHANGED dw
    /\ UNCHANGED notBroadcast

\* ------------------------------------------------------------------ CancelBroadcast
\* handle_cancel_broadcast: read the summary; nothing to do when there is none
CancelRead(b) ==
    /\ api.pc = "idle"
    /\ api' = IF broadcast_summaries[b].exists
              THEN [IdleApi EXCEPT !.pc = "cn_write", !.b = b, !.copy = broadcast_summaries[b]]
              ELSE [IdleApi EXCEPT !.res = "ok"]
    /\ UNCHANGED <<broadcast_events, broadcast_summaries, broadcast_messages, events,
                   commands, ew, now, hist>>
    /\ UNCHANGED dw
    /\ UNCHANGED notBroadcast

\* status Failed and completed_at = now, written over the row
CancelWrite ==
    /\ api.pc = "cn_write"
    /\ broadcast_summaries' = update_broadcast_summary(broadcast_summaries, api.b,
            [api.copy EXCEPT !.status = "failed", !.completed_at = now])
    /\ api' = [IdleApi EXCEPT !.res = "ok"]
    /\ UNCHANGED <<broadcast_events, broadcast_messages, events, commands, ew, now, hist>>
    /\ UNCHANGED dw
    /\ UNCHANGED notBroadcast

\* time passes
Tick ==
    /\ now < MaxClock
    /\ now' = now + 1
    /\ UNCHANGED <<broadcast_events, broadcast_summaries, broadcast_messages, events,
                   commands, ew, api, hist>>
    /\ UNCHANGED dw
    /\ UNCHANGED notBroadcast

\* ------------------------------------------------------------------ event worker
\* process_events: the next delivery is taken and parsed
EwReceive ==
    /\ ew.pc = "idle"
    /\ events /= << >>
    /\ ew' = [IdleWorker EXCEPT !.pc = "ew_read", !.ev = Head(events)]
    /\ events' = Tail(events)
    /\ UNCHANGED <<broadcast_events, broadcast_summaries, broadcast_messages, commands, api,
                   now, hist>>
    /\ UNCHANGED dw
    /\ UNCHANGED notBroadcast

\* handle_event, BroadcastCreated: the summary is read; without one the event fails
EwReadSummary ==
    /\ ew.pc = "ew_read"
    /\ ew' = IF broadcast_summaries[ew.ev.broadcast_id].exists
             THEN [ew EXCEPT !.pc = "ew_fanout",
                             !.copy = broadcast_summaries[ew.ev.broadcast_id]]
             ELSE [ew EXCEPT !.pc = "ew_ack"]
    /\ UNCHANGED <<broadcast_events, broadcast_summaries, broadcast_messages, events,
                   commands, api, now, hist>>
    /\ UNCHANGED dw
    /\ UNCHANGED notBroadcast

\* one command per user of get_users_for_broadcast (the event's target_users are
\* ignored); the loop body never runs, the list being empty
EwFanOut ==
    /\ ew.pc = "ew_fanout"
    /\ commands' = commands \o FanOut(get_users_for_broadcast, ew.ev.broadcast_id)
    /\ ew' = [ew EXCEPT !.pc = "ew_reread", !.copy = NoSummary]
    /\ UNCHANGED <<broadcast_events, broadcast_summaries, broadcast_messages, events, api,
                   now, hist>>
    /\ UNCHANGED dw
    /\ UNCHANGED notBroadcast

\* the summary is read again
EwReread ==
    /\ ew.pc = "ew_reread"
    /\ ew' = IF broadcast_summaries[ew.ev.broadcast_id].exists
             THEN [ew EXCEPT !.pc = "ew_write",
                             !.copy = broadcast_summaries[ew.ev.broadcast_id]]
             ELSE [ew EXCEPT !.pc = "ew_ack"]
    /\ UNCHANGED <<broadcast_events, broadcast_summaries, broadcast_messages, events,
                   commands, api, now, hist>>
    /\ UNCHANGED dw
    /\ UNCHANGED notBroadcast

\* and written back with status InProgress and started_at = now
EwWrite ==
    /\ ew.pc = "ew_write"
    /\ broadcast_summaries' = update_broadcast_summary(broadcast_summaries,
            ew.ev.broadcast_id,
            [ew.copy EXCEPT !.status = "in_progress", !.started_at = now])
    /\ ew' = [ew EXCEPT !.pc = "ew_ack", !.copy = NoSummary]
    /\ UNCHANGED <<broadcast_events, broadcast_messages, events, commands, api, now, hist>>
    /\ UNCHANGED dw
    /\ UNCHANGED notBroadcast

\* the delivery is acked whatever handle_event returned; the history counts it
EwAck ==
    /\ ew.pc = "ew_ack"
    /\ hist' = [hist EXCEPT ![ew.ev.broadcast_id].handled = @ + 1]
    /\ ew' = IdleWorker
    /\ UNCHANGED <<broadcast_events, broadcast_summaries, broadcast_messages, events,
                   commands, api, now>>
    /\ UNCHANGED dw
    /\ UNCHANGED notBroadcast

\* ------------------------------------------------------------------ message rows
\* UNIQUE(broadcast_id, telegram_id) of table broadcast_messages (migrations)
MessageUniqueNone(rows, b, u) == FALSE
MessageUniqueViolation(rows, b, u) ==
    \E r \in rows : r.broadcast_id = b /\ r.telegram_id = u

\* the row id the table gives the next insert: one more than the largest it holds
NewMessageId(rows) ==
    IF rows = {} THEN 1
    ELSE 1 + (CHOOSE n \in {r.id : r \in rows} : \A r \in rows : r.id <= n)

\* SELECT COUNT(*) FROM broadcast_messages WHERE broadcast_id = b AND status = st
MessageCount(rows, b, st) ==
    Cardinality({r \in rows : r.broadcast_id = b /\ r.status = st})

\* create_broadcast_message: one INSERT of a Pending row.  The workers never call it;
\* its arguments are the caller's.
CreateMessage(b, u, mt) ==
    /\ api.pc = "idle"
    /\ broadcast_summaries[b].exists
    /\ IF MessageUniqueViolation(broadcast_messages, b, u)
       THEN /\ broadcast_messages' = broadcast_messages
            /\ api' = [IdleApi EXCEPT !.res = "duplicate"]
       ELSE /\ broadcast_messages' = broadcast_messages \cup
                    {[id |-> NewMessageId(broadcast_messages), broadcast_id |-> b,
                      telegram_id |-> u, status |-> "pending", error |-> "none",
                      sent_at |-> 0, retry_count |-> 0, message_type |-> mt]}
            /\ api' = [IdleApi EXCEPT !.res = "ok"]
    /\ UNCHANGED <<broadcast_events, broadcast_summaries, events, commands, ew, now, hist, dw>>
    /\ UNCHANGED notBroadcast

\* ------------------------------------------------------------------ delivery worker
\* the broker hands the messages queue a delivery command
CommandArrives(b, u) ==
    /\ hist[b].created = 1
    /\ hist[b].commands < MaxCommands
    /\ commands' = Append(commands, [broadcast_id |-> b, telegram_id |-> u])
    /\ hist' = [hist EXCEPT ![b].commands = @ + 1]
    /\ UNCHANGED <<broadcast_events, broadcast_summaries, broadcast_messages, events, ew, api,
                   now, dw>>
    /\ UNCHANGED notBroadcast

\* handle_message: the command is taken and the external send made; it succeeds or fails
DwReceive(w, ok) ==
    /\ dw[w].pc = "idle"
    /\ commands /= << >>
    /\ dw' = [dw EXCEPT ![w] = [IdleDelivery EXCEPT
                !.pc = "dw_update", !.cmd = Head(commands),
                !.status = IF ok THEN "sent" ELSE "failed"]]
    /\ commands' = Tail(commands)
    /\ UNCHANGED <<broadcast_events, broadcast_summaries, broadcast_messages, events, ew, api,
                   now, hist>>
    /\ UNCHANGED notBroadcast

\* update_broadcast_message_status: UPDATE .. SET status, error, sent_at WHERE
\* broadcast_id AND telegram_id; sent_at is the time for Sent and NULL otherwise, the
\* error is the send's error string for Failed and NULL for Sent
StatusUpdateAll(rows, b, u, status, t) ==
    {[r EXCEPT !.status = status,
               !.error = IF status = "failed" THEN "error" ELSE "none",
               !.sent_at = IF status = "sent" THEN t ELSE 0] : r \in rows}
StatusUpdate(rows, b, u, status, t) ==
    {IF r.broadcast_id = b /\ r.telegram_id = u
     THEN [r EXCEPT !.status = status,
                    !.error = IF status = "failed" THEN "error" ELSE "none",
                    !.sent_at = IF status = "sent" THEN t ELSE 0]
     ELSE r : r \in rows}

DwUpdateRow(w) ==
    /\ dw[w].pc = "dw_update"
    /\ broadcast_messages' = StatusUpdate(broadcast_messages, dw[w].cmd.broadcast_id,
                                          dw[w].cmd.telegram_id, dw[w].status, now)
    /\ dw' = [dw EXCEPT ![w].pc = "dw_count"]
    /\ UNCHANGED <<broadcast_events, broadcast_summaries, events, commands, ew, api, now, hist>>
    /\ UNCHANGED notBroadcast

\* update_broadcast_summary_from_messages: the counts of sent, failed and pending rows
DwCount(w) ==
    /\ dw[w].pc = "dw_count"
    /\ dw' = [dw EXCEPT
                ![w].pc = "dw_read",
                ![w].sent_count = MessageCount(broadcast_messages, dw[w].cmd.broadcast_id, "sent"),
                ![w].failed_count =
                    MessageCount(broadcast_messages, dw[w].cmd.broadcast_id, "failed"),
                ![w].pending_count =
                    MessageCount(broadcast_messages, dw[w].cmd.broadcast_id, "pending")]
    /\ UNCHANGED <<broadcast_events, broadcast_summaries, broadcast_messages, events, commands,
                   ew, api, now, hist>>
    /\ UNCHANGED notBroadcast

\* the projector writing the counts and leaving the status alone
ProjectedCounts(copy, sent, failed, pending, t) ==
    [copy EXCEPT !.sent_count = sent, !.failed_count = failed, !.pending_count = pending]

\* the summary the projector writes from the one it read and the counts
Projected(copy, sent, failed, pending, t) ==
    LET counted == [copy EXCEPT !.sent_count = sent, !.failed_count = failed,
                                !.pending_count = pending]
    IN  IF pending = 0 /\ counted.total_users > 0
        THEN [counted EXCEPT !.status = "completed", !.completed_at = t]
        ELSE IF counted.total_users > 0
             THEN [counted EXCEPT !.status = "in_progress"]
             ELSE counted

\* the current summary is read; without one the projector has nothing to write and the
\* delivery is acked
DwReadSummary(w) ==
    /\ dw[w].pc = "dw_read"
    /\ IF broadcast_summaries[dw[w].cmd.broadcast_id].exists
       THEN /\ dw' = [dw EXCEPT ![w].pc = "dw_write",
                                ![w].copy = broadcast_summaries[dw[w].cmd.broadcast_id]]
            /\ hist' = hist
       ELSE /\ dw' = [dw EXCEPT ![w] = IdleDelivery]
            /\ hist' = [hist EXCEPT ![dw[w].cmd.broadcast_id].processed = @ + 1]
    /\ UNCHANGED <<broadcast_events, broadcast_summaries, broadcast_messages, events, commands,
                   ew, api, now>>
    /\ UNCHANGED notBroadcast

\* the summary is written; handle_message returns and the delivery is acked
DwWriteSummary(w) ==
    /\ dw[w].pc = "dw_write"
    /\ broadcast_summaries' = update_broadcast_summary(broadcast_summaries,
            dw[w].cmd.broadcast_id,
            Projected(dw[w].copy, dw[w].sent_count, dw[w].failed_count,
                      dw[w].pending_count, now))
    /\ dw' = [dw EXCEPT ![w] = IdleDelivery]
    /\ hist' = [hist EXCEPT ![dw[w].cmd.broadcast_id].processed = @ + 1]
    /\ UNCHANGED <<broadcast_events, broadcast_messages, events, commands, ew, api, now>>
    /\ UNCHANGED notBroadcast

\* ------------------------------------------------------------------ RetryMessage
\* handle_retry_message: the first Failed row of the broadcast (the command's recipient
\* plays no part in the choice); nothing to do when there is none
RtSelect(b, u) ==
    /\ api.pc = "idle"
    /\ hist[b].created = 1
    /\ \A r \in broadcast_messages : r.retry_count < MaxRetryCount
    /\ LET failed == {r \in broadcast_messages : r.broadcast_id = b /\ r.status = "failed"}
       IN  api' = IF failed = {}
                  THEN [IdleApi EXCEPT !.res = "ok"]
                  ELSE [IdleApi EXCEPT !.pc = "rt_update", !.b = b, !.u = u,
                                       !.msg = CHOOSE r \in failed :
                                                    \A q \in failed : r.id <= q.id]
    /\ UNCHANGED <<broadcast_events, broadcast_summaries, broadcast_messages, events,
                   commands, ew, now, hist, dw>>
    /\ UNCHANGED notBroadcast

\* update_broadcast_message: status Retrying and retry_count + 1 written over the row
RtUpdate ==
    /\ api.pc = "rt_update"
    /\ broadcast_messages' =
            {IF r.broadcast_id = api.msg.broadcast_id /\ r.telegram_id = api.msg.telegram_id
             THEN [r EXCEPT !.status = "retrying", !.error = api.msg.error,
                            !.sent_at = api.msg.sent_at,
                            !.retry_count = api.msg.retry_count + 1]
             ELSE r : r \in broadcast_messages}
    /\ api' = [api EXCEPT !.pc = "rt_event", !.msg = NoMessage]
    /\ UNCHANGED <<broadcast_events, broadcast_summaries, events, commands, ew, now, hist, dw>>
    /\ UNCHANGED notBroadcast

\* the MessageRetrying event is saved, version 1 as every event
RtSaveEvent ==
    /\ api.pc = "rt_event"
    /\ broadcast_events' = Append(broadcast_events,
            [event_type |-> "MessageRetrying", broadcast_id |-> api.b, target_users |-> {},
             telegram_id |-> api.u, version |-> 1])
    /\ api' = [IdleApi EXCEPT !.res = "ok"]
    /\ UNCHANGED <<broadcast_summaries, broadcast_messages, events, commands, ew, now, hist, dw>>
    /\ UNCHANGED notBroadcast

\* ------------------------------------------------------------------ delete_broadcast
\* DELETE FROM broadcast_messages WHERE broadcast_id = b
DbMessages(b) ==
    /\ api.pc = "idle"
    /\ hist[b].created = 1
    /\ broadcast_messages' = {r \in broadcast_messages : r.broadcast_id /= b}
    /\ api' = [IdleApi EXCEPT !.pc = "db_events", !.b = b]
    /\ UNCHANGED <<broadcast_events, broadcast_summaries, events, commands, ew, now, hist, dw>>
    /\ UNCHANGED notBroadcast

\* DELETE FROM broadcast_events WHERE broadcast_id = b; the history starts afresh
DbEvents ==
    /\ api.pc = "db_events"
    /\ LET Keep(e) == e.broadcast_id /= api.b
       IN  broadcast_events' = SelectSeq(broadcast_events, Keep)
    /\ hist' = [hist EXCEPT ![api.b].processed = 0]
    /\ api' = [api EXCEPT !.pc = "db_summary"]
    /\ UNCHANGED <<broadcast_summaries, broadcast_messages, events, commands, ew, now, dw>>
    /\ UNCHANGED notBroadcast

\* DELETE FROM broadcast_summaries WHERE id = b
DbSummary ==
    /\ api.pc = "db_summary"
    /\ broadcast_summaries' = [broadcast_summaries EXCEPT ![api.b] = NoSummary]
    /\ api' = [IdleApi EXCEPT !.res = "ok"]
    /\ UNCHANGED <<broadcast_events, broadcast_messages, events, commands, ew, now, hist, dw>>
    /\ UNCHANGED notBroadcast

\* ------------------------------------------------------------------ no-response report
\* recipients with a booking: SELECT DISTINCT telegram_id FROM records
Booked(recs) == {r \in Recipients : RowsOf(recs, r) > 0}

\* bs.status IN ('completed', 'in_progress', 'pending')
ReportStatusesNoPending == {"completed", "in_progress"}
ReportStatuses == {"completed", "in_progress", "pending"}

\* get_no_response_users_detailed: one query joining message rows with their summary
NoResponseUsers(rows, sums, recs) ==
    {r.telegram_id : r \in {q \in rows :
        /\ sums[q.broadcast_id].exists
        /\ q.message_type = "signup"
        /\ sums[q.broadcast_id].status \in ReportStatuses
        /\ q.status \in {"sent", "failed"}
        /\ q.telegram_id \notin Booked(recs)}}

\* GET /no-response-users
NoResponseReport ==
    /\ api.pc = "idle"
    /\ api.res /= "report"
    /\ api' = [IdleApi EXCEPT !.res = "report",
                              !.report = NoResponseUsers(broadcast_messages,
                                                         broadcast_summaries, records)]
    /\ UNCHANGED <<broadcast_events, broadcast_summaries, broadcast_messages, events,
                   commands, ew, now, hist, dw>>
    /\ UNCHANGED notBroadcast

\* ------------------------------------------------------------------ operator status update
\* PUT /broadcast-message-status: UPDATE broadcast_messages SET status = ? WHERE
\* telegram_id = ? AND message_type = ?; the status is the request's string, unchecked
MessageStatuses == {"pending", "sent", "failed", "retrying"}
OpSetStatus(u, mt, st) ==
    /\ api.pc = "idle"
    /\ broadcast_messages' =
            {IF r.telegram_id = u /\ r.message_type = mt
             THEN [r EXCEPT !.status = st] ELSE r : r \in broadcast_messages}
    /\ api' = [IdleApi EXCEPT !.res =
                    IF \E r \in broadcast_messages : r.telegram_id = u /\ r.message_type = mt
                    THEN "ok" ELSE "not_found"]
    /\ UNCHANGED <<broadcast_events, broadcast_summaries, events, commands, ew, now, hist, dw>>
    /\ UNCHANGED notBroadcast

BroadcastInit ==
    /\ broadcast_events = << >>
    /\ broadcast_summaries = [b \in BroadcastIds |-> NoSummary]
    /\ broadcast_messages = {}
    /\ events = << >>
    /\ commands = << >>
    /\ ew = IdleWorker
    /\ api = IdleApi
    /\ now = 1
    /\ hist = [b \in BroadcastIds |-> [created |-> 0, enqueued |-> 0, handled |-> 0,
                                       commands |-> 0, processed |-> 0]]
    /\ dw = [w \in Workers |-> IdleDelivery]

\* ------------------------------------------------------------------ slot ranker
\* struct Slot as the ranker's query returns it
SlotRow(sl, recs, s) ==
    [id |-> s, time |-> sl[s].time, place |-> sl[s].place, max_user |-> sl[s].max_user,
     booked_count |-> BookedCount(recs, s)]

\* WHERE s.time > ? AND COALESCE(booked_counts.count, 0) < s.max_user
OpenAfter(sl, recs, s, t) ==
    sl[s].exists /\ sl[s].time > t /\ BookedCount(recs, s) < sl[s].max_user

\* the orderings of a set of rows
Orderings(S) ==
    {q \in [1..Cardinality(S) -> S] : \A i, j \in 1..Cardinality(S) : i /= j => q[i] /= q[j]}
Position(q, x) == CHOOSE i \in 1..Len(q) : q[i] = x
Range(q) == {q[i] : i \in 1..Len(q)}

\* .. ORDER BY s.time ASC: every order the database may return, rows of equal time in
\* any order
QueryResults(sl, recs, t) ==
    {q \in Orderings({SlotRow(sl, recs, s) : s \in {x \in SlotIds : OpenAfter(sl, recs, x, t)}}) :
        \A i, j \in 1..Len(q) : i < j => q[i].time <= q[j].time}

\* exp(-hours_until / 48) * 100 * 0.5 in units of 1e-8, the clock counting periods of
\* 480 hours: exp(-10), exp(-20), ..; 0.0 for a slot that has started
TimeFactor(periods) ==
    IF periods <= 0 THEN 0
    ELSE IF periods = 1 THEN 227000
    ELSE IF periods = 2 THEN 10
    ELSE 0

\* calculate_slot_weight, in units of 1e-8: free places * 0.5 + the time factor
calculate_slot_weight(slot, t) ==
    (slot.max_user - slot.booked_count) * 50000000 + TimeFactor(slot.time - t)

\* sort_by is stable: rows the comparison holds equal keep their order
ByWeight(q, t) ==
    CHOOSE p \in Orderings(Range(q)) :
        \A i, j \in 1..Len(p) : i < j =>
            \/ calculate_slot_weight(p[i], t) > calculate_slot_weight(p[j], t)
            \/ /\ calculate_slot_weight(p[i], t) = calculate_slot_weight(p[j], t)
               /\ Position(q, p[i]) < Position(q, p[j])
Unsorted(q) == q
ByTime(q) ==
    CHOOSE p \in Orderings(Range(q)) :
        \A i, j \in 1..Len(p) : i < j =>
            \/ p[i].time < p[j].time
            \/ p[i].time = p[j].time /\ Position(q, p[i]) < Position(q, p[j])

\* .take(limit as usize)
Take(q, n) == SubSeq(q, 1, IF n < Len(q) THEN n ELSE Len(q))

\* get_best_slots_for_booking: one query at clock t, the weights computed at clock
\* wt (the same or later), the best `limit` rows, then these in order of time
get_best_slots_for_booking(c, limit, t, wt) ==
    /\ bk[c].pc = "idle"
    /\ \E q \in QueryResults(slots, records, t) :
          bk' = [bk EXCEPT ![c] = [IdleTask EXCEPT
                    !.pc = "done", !.op = "BestSlots", !.limit = limit, !.at = t,
                    !.best = ByTime(Take(ByWeight(q, wt), limit))]]
    /\ UNCHANGED <<slots, records, nextSlotId, pre>>
    /\ UNCHANGED notBooking

\* ------------------------------------------------------------------ consumer loops
\* EventsWorker::process_events and MessagesWorker::process_messages: one loop each
Consumers == {"events", "messages"}
Tags == 1..NumTags
NoDelivery == [queue |-> "none", payload |-> "none", state |-> "none", outcome |-> "none",
               ack_calls |-> 0, acks |-> 0]
IdleLoop == [pc |-> "idle", tag |-> 0, parsed |-> FALSE]

\* the delivery the broker hands a consumer next: the oldest ready one of its queue
NextReady(k) ==
    IF \E t \in Tags : deliveries[t].queue = k /\ deliveries[t].state = "ready"
    THEN CHOOSE t \in Tags :
            /\ deliveries[t].queue = k /\ deliveries[t].state = "ready"
            /\ \A u \in Tags :
                  deliveries[u].queue = k /\ deliveries[u].state = "ready" => t <= u
    ELSE 0

\* a publisher puts a payload, well-formed or not, on the queue of consumer k
Publish(k, payload) ==
    /\ \E t \in Tags : deliveries[t].state = "none"
    /\ LET t == CHOOSE n \in Tags :
                    /\ deliveries[n].state = "none"
                    /\ \A u \in Tags : deliveries[u].state = "none" => n <= u
       IN  deliveries' = [deliveries EXCEPT ![t] =
                [NoDelivery EXCEPT !.queue = k, !.payload = payload, !.state = "ready"]]
    /\ UNCHANGED cl
    /\ UNCHANGED notConsumer

\* consumer.next() yields a delivery; the broker holds it unacked from now on
ConsumerNext(k) ==
    /\ cl[k].pc = "idle"
    /\ NextReady(k) /= 0
    /\ deliveries' = [deliveries EXCEPT ![NextReady(k)].state = "unacked"]
    /\ cl' = [cl EXCEPT ![k] = [IdleLoop EXCEPT !.pc = "parse", !.tag = NextReady(k)]]
    /\ UNCHANGED notConsumer

\* serde_json::from_slice: a payload that does not parse goes straight to the ack
ParsePayload(k) ==
    /\ cl[k].pc = "parse"
    /\ IF deliveries[cl[k].tag].payload = "json"
       THEN /\ cl' = [cl EXCEPT ![k].pc = "handle", ![k].parsed = TRUE]
            /\ deliveries' = deliveries
       ELSE /\ cl' = [cl EXCEPT ![k].pc = "ack"]
            /\ deliveries' = [deliveries EXCEPT ![cl[k].tag].outcome = "parse_error"]
    /\ UNCHANGED notConsumer

\* where the loop goes when the handler has returned Ok (ok) or Err
AfterHandlerOkOnly(ok) == IF ok THEN "ack" ELSE "sleep"
AfterHandler(ok) == "ack"

\* handler(payload).await returns Ok or Err; either is only logged
RunHandler(k, ok) ==
    /\ cl[k].pc = "handle"
    /\ cl' = [cl EXCEPT ![k].pc = AfterHandler(ok)]
    /\ deliveries' = [deliveries EXCEPT ![cl[k].tag].outcome = IF ok THEN "ok" ELSE "err"]
    /\ UNCHANGED notConsumer

\* ack_message(delivery_tag): basic_ack succeeds, or fails and the failure is logged;
\* after a parse failure the loop continues at once, otherwise it sleeps first
AckMessage(k, ok) ==
    /\ cl[k].pc = "ack"
    /\ deliveries' = [deliveries EXCEPT
            ![cl[k].tag].ack_calls = @ + 1,
            ![cl[k].tag].acks = IF ok THEN @ + 1 ELSE @,
            ![cl[k].tag].state = IF ok THEN "acked" ELSE @]
    /\ cl' = [cl EXCEPT ![k].pc = IF cl[k].parsed THEN "sleep" ELSE "idle",
                        ![k].tag = IF cl[k].parsed THEN @ ELSE 0]
    /\ UNCHANGED notConsumer

\* tokio::time::sleep(100 ms), then the next round of the loop
LoopSleep(k) ==
    /\ cl[k].pc = "sleep"
    /\ cl' = [cl EXCEPT ![k] = IdleLoop]
    /\ UNCHANGED deliveries
    /\ UNCHANGED notConsumer

ConsumerInit ==
    /\ deliveries = [t \in Tags |-> NoDelivery]
    /\ cl = [k \in Consumers |-> IdleLoop]

\* ------------------------------------------------------------------ specifications
BookingInit ==
    /\ slots = [s \in SlotIds |-> NoSlot]
    /\ records = NoRecords
    /\ nextSlotId = 1
    /\ bk = [t \in Tasks |-> IdleTask]
    /\ pre = NoRecords

\* what a request does after its first statement
LaterStep(t) ==
    \/ BookInsert(t)
    \/ BookReadCount(t)
    \/ BookReadMax(t)
    \/ Return(t)
    \/ UpdateSlotWrite(t)
    \/ UpdateSlotRead(t)
    \/ DeleteSlotRow(t)

\* concurrent requests
Init == BookingInit /\ VotingRest /\ BroadcastInit /\ ConsumerInit
Next ==
    \E t \in Clients :
        \/ \E r \in Recipients, s \in SlotIds : BookDelete(t, r, s)
        \/ \E cap \in 1..MaxCap : CreateSlot(t, 1, 1, cap)
        \/ \E s \in SlotIds, cap \in 0..MaxCap : UpdateSlotCheck(t, s, CapacityOnly(cap))
        \/ \E s \in SlotIds : DeleteSlotRecords(t, s)
        \/ \E r \in Recipients, s \in SlotIds : DeleteBooking(t, r, s)
        \/ LaterStep(t)
Spec == Init /\ [][Next]_vars

\* one request at a time: a request starts only when no other is in flight
Quiet(t) == \A u \in Tasks \ {t} : bk[u].pc = "idle"
NextSeq ==
    \E t \in Clients :
        \/ \E r \in Recipients, s \in SlotIds : Quiet(t) /\ BookDeleteSeq(t, r, s)
        \/ \E cap \in 1..MaxCap : Quiet(t) /\ CreateSlot(t, 1, 1, cap)
        \/ \E s \in SlotIds, cap \in 0..MaxCap :
                Quiet(t) /\ UpdateSlotCheck(t, s, CapacityOnly(cap))
        \/ \E s \in SlotIds : Quiet(t) /\ DeleteSlotRecords(t, s)
        \/ \E r \in Recipients, s \in SlotIds : Quiet(t) /\ DeleteBooking(t, r, s)
        \/ LaterStep(t)
SpecSeq == Init /\ [][NextSeq]_vars

\* the slot the scenarios below work on
RaceSlot == CHOOSE s \in SlotIds : \A u \in SlotIds : s <= u

\* the operator edits the time, venue and capacity of a slot while recipients book it,
\* one request at a time; the other slots were created and deleted before
InitSlot ==
    /\ \E time \in Times, place \in Places, cap \in 1..MaxCap :
          slots = [s \in SlotIds |-> IF s = RaceSlot
                                     THEN [exists |-> TRUE, max_user |-> cap,
                                           time |-> time, place |-> place]
                                     ELSE NoSlot]
    /\ records = NoRecords
    /\ nextSlotId = NumSlots + 1
    /\ bk = [t \in Tasks |-> IdleTask]
    /\ pre = NoRecords
    /\ VotingRest
    /\ ConsumerInit
    /\ BroadcastInit
SlotStep(t) ==
    \/ BookInsert(t)
    \/ BookReadCount(t)
    \/ BookReadMax(t)
    \/ Return(t)
    \/ UpdateSlotTime(t)
    \/ UpdateSlotPlace(t)
    \/ UpdateSlotWrite(t)
    \/ UpdateSlotRead(t)
NextSlot ==
    \E t \in Clients :
        \/ \E r \in Recipients, s \in SlotIds : Quiet(t) /\ BookDeleteSeq(t, r, s)
        \/ \E s \in SlotIds, payload \in Payloads : Quiet(t) /\ UpdateSlotCheck(t, s, payload)
        \/ SlotStep(t)
SpecSlot == InitSlot /\ [][NextSlot]_vars

\* N recipients book the same fresh slot at once, each exactly once
InitRace ==
    /\ \E cap \in 1..MaxCap :
          slots = [s \in SlotIds |-> IF s = RaceSlot THEN [exists |-> TRUE, max_user |-> cap,
                                                          time |-> 1, place |-> 1]
                                                    ELSE NoSlot]
    /\ records = NoRecords
    /\ nextSlotId = RaceSlot + 1
    /\ bk = [t \in Tasks |-> IdleTask]
    /\ pre = NoRecords
    /\ VotingRest
    /\ ConsumerInit
    /\ BroadcastInit
NextRace ==
    \E t \in Recipients :
        \/ BookDelete(t, t, RaceSlot)
        \/ BookInsert(t)
        \/ BookReadCount(t)
        \/ BookReadMax(t)
SpecRace == InitRace /\ [][NextRace]_vars

\* reviewers ask for surveys and vote, one request per reviewer at a time
InitVoting == BookingInit /\ VotingInit /\ BroadcastInit /\ ConsumerInit
NextVoting ==
    \E v \in Reviewers :
        \/ GnsStart(v)
        \/ GnsApiDown(v)
        \/ GnsReadVoted(v)
        \/ GnsCountLocks(v)
        \/ GnsClear(v)
        \/ GnsFindRegular(v)
        \/ GnsRespCounts(v)
        \/ GnsRespPick(v)
        \/ GnsClearAgain(v)
        \/ GnsClaim(v)
        \/ GnsReadVotes(v)
        \/ Respond(v)
        \/ \E c \in Candidates, in \in VoteInputs : CvSelect(v, c, in)
        \/ CvWrite(v)
        \/ CvRead(v)
        \/ \E c \in Candidates : SyncSelect(v, c)
        \/ SyncInsert(v)
        \/ SyncAdvance(v)
        \/ \E c \in Candidates : SummaryStats(v, c)
        \/ SummaryStatus(v)
SpecVoting == InitVoting /\ [][NextVoting]_vars

\* requests for the next survey arrive for any reviewer while another request, of the
\* same reviewer or of another, is still running
NextSessions ==
    \E v \in Reviewers :
        \/ \E u \in Reviewers : GnsStartAs(v, u)
        \/ GnsReadVoted(v)
        \/ GnsCountLocks(v)
        \/ GnsClear(v)
        \/ GnsFindRegular(v)
        \/ GnsRespCounts(v)
        \/ GnsRespPick(v)
        \/ GnsClearAgain(v)
        \/ GnsClaim(v)
        \/ GnsReadVotes(v)
        \/ Respond(v)
SpecSessions == InitVoting /\ [][NextSessions]_vars

\* reviewers only vote on the candidate get_next_survey has handed them: a vote is cast
\* by a reviewer holding a claim row on the candidate
HoldsClaim(v, c) == \E r \in votes : r.survey_id = c /\ r.voter = v /\ r.comment = Processing
NextClaimed ==
    \E v \in Reviewers :
        \/ GnsStart(v)
        \/ GnsReadVoted(v)
        \/ GnsCountLocks(v)
        \/ GnsClear(v)
        \/ GnsFindRegular(v)
        \/ GnsRespCounts(v)
        \/ GnsRespPick(v)
        \/ GnsClearAgain(v)
        \/ GnsClaim(v)
        \/ GnsReadVotes(v)
        \/ Respond(v)
        \/ \E c \in Candidates, in \in VoteInputs : HoldsClaim(v, c) /\ CvSelect(v, c, in)
        \/ CvWrite(v)
        \/ CvRead(v)
SpecClaimed == InitVoting /\ [][NextClaimed]_vars

\* the operator creates and cancels broadcasts; the event worker consumes the events
NextBroadcast ==
    \/ CbNoUsers
    \/ \E R \in SUBSET Targets : CbSaveEvent(R)
    \/ CbCreateSummary
    \/ CbSummaryFail
    \/ CbPublish
    \/ CbPublishFail
    \/ \E b \in BroadcastIds : Redeliver(b)
    \/ \E b \in BroadcastIds : CancelRead(b)
    \/ CancelWrite
    \/ Tick
    \/ EwReceive
    \/ EwReadSummary
    \/ EwFanOut
    \/ EwReread
    \/ EwWrite
    \/ EwAck
SpecBroadcast == Init /\ [][NextBroadcast]_vars

\* the operator creates broadcasts, retries, cancels and deletes them; message rows are
\* inserted; the delivery workers consume the commands the broker hands them
NextDelivery ==
    \/ (\A b \in BroadcastIds : hist[b].created = 0) /\ CbSaveEvent(Targets)
    \/ CbCreateSummary
    \/ CbPublish
    \/ CbPublishFail
    \/ \E b \in BroadcastIds, u \in Targets : CreateMessage(b, u, "custom")
    \/ \E b \in BroadcastIds, u \in Targets : CommandArrives(b, u)
    \/ \E w \in Workers, ok \in BOOLEAN : DwReceive(w, ok)
    \/ \E w \in Workers : DwUpdateRow(w)
    \/ \E w \in Workers : DwCount(w)
    \/ \E w \in Workers : DwReadSummary(w)
    \/ \E w \in Workers : DwWriteSummary(w)
    \/ \E b \in BroadcastIds, u \in Targets : RtSelect(b, u)
    \/ RtUpdate
    \/ RtSaveEvent
    \/ \E b \in BroadcastIds : DbMessages(b)
    \/ DbEvents
    \/ DbSummary
    \/ \E b \in BroadcastIds : hist[b].created = 1 /\ CancelRead(b)
    \/ CancelWrite
SpecDelivery == Init /\ [][NextDelivery]_vars

\* the operator creates one broadcast, for all recipients or for none, and cancels it
\* while message rows are inserted and the delivery workers handle its commands
NextCancel ==
    \/ \E R \in {{}, Targets} : (\A b \in BroadcastIds : hist[b].created = 0) /\ CbSaveEvent(R)
    \/ CbCreateSummary
    \/ CbPublish
    \/ \E b \in BroadcastIds, u \in Targets : CreateMessage(b, u, "custom")
    \/ \E b \in BroadcastIds, u \in Targets : CommandArrives(b, u)
    \/ \E w \in Workers : DwReceive(w, TRUE)
    \/ \E w \in Workers : DwUpdateRow(w)
    \/ \E w \in Workers : DwCount(w)
    \/ \E w \in Workers : DwReadSummary(w)
    \/ \E w \in Workers : DwWriteSummary(w)
    \/ \E b \in BroadcastIds : hist[b].created = 1 /\ CancelRead(b)
    \/ CancelWrite
    \/ Tick
SpecCancel == Init /\ [][NextCancel]_vars

\* the report read over a database in which broadcasts were created, delivered, retried
\* and cancelled, and some of the recipients booked a slot
RowsOfChoice(st, ty) ==
    {[id |-> (p[1] - 1) * NumTargets + p[2], broadcast_id |-> p[1], telegram_id |-> p[2],
      status |-> st[p], error |-> IF st[p] \in {"failed", "retrying"} THEN "error" ELSE "none",
      sent_at |-> IF st[p] = "sent" THEN 1 ELSE 0,
      retry_count |-> IF st[p] = "retrying" THEN 1 ELSE 0,
      message_type |-> ty[p[1]]] :
        p \in {q \in BroadcastIds \X Targets : st[q] /= "none"}}
InitReport ==
    /\ slots = [s \in SlotIds |-> IF s = RaceSlot
                                  THEN [exists |-> TRUE, max_user |-> NumTargets,
                                        time |-> 1, place |-> 1]
                                  ELSE NoSlot]
    /\ \E B \in SUBSET Targets :
          records = [p \in Recipients \X SlotIds |->
                        IF p[2] = RaceSlot /\ p[1] \in B THEN 1 ELSE 0]
    /\ nextSlotId = RaceSlot + 1
    /\ bk = [t \in Tasks |-> IdleTask]
    /\ pre = NoRecords
    /\ VotingRest
    /\ ConsumerInit
    /\ \E st \in [BroadcastIds \X Targets ->
                    {"none", "pending", "sent", "failed", "retrying"}],
          ty \in [BroadcastIds -> {"signup", "custom"}],
          sm \in [BroadcastIds -> {"pending", "in_progress", "completed", "failed"}] :
          /\ broadcast_messages = RowsOfChoice(st, ty)
          /\ broadcast_summaries = [b \in BroadcastIds |->
                [exists |-> TRUE, total_users |-> NumTargets,
                 sent_count |-> MessageCount(RowsOfChoice(st, ty), b, "sent"),
                 failed_count |-> MessageCount(RowsOfChoice(st, ty), b, "failed"),
                 pending_count |-> MessageCount(RowsOfChoice(st, ty), b, "pending"),
                 status |-> sm[b], started_at |-> 0, completed_at |-> 0]]
    /\ broadcast_events = << >>
    /\ events = << >>
    /\ commands = << >>
    /\ ew = IdleWorker
    /\ api = IdleApi
    /\ now = 1
    /\ hist = [b \in BroadcastIds |-> [created |-> 1, enqueued |-> 0, handled |-> 0,
                                       commands |-> 0, processed |-> 0]]
    /\ dw = [w \in Workers |-> IdleDelivery]
NextReport == NoResponseReport
SpecReport == InitReport /\ [][NextReport]_vars

\* the operator rewrites message statuses after every broadcast has been delivered to
\* every recipient, and reads the report
InitOperator ==
    /\ InitReport
    /\ records = NoRecords
    /\ \A b \in BroadcastIds : broadcast_summaries[b].status = "completed"
    /\ \A b \in BroadcastIds, u \in Targets :
          \E r \in broadcast_messages :
              r.broadcast_id = b /\ r.telegram_id = u /\ r.status = "sent"
NextOperator ==
    \/ NoResponseReport
    \/ \E u \in Targets, mt \in {"signup", "custom"}, st \in MessageStatuses :
            OpSetStatus(u, mt, st)
SpecOperator == InitOperator /\ [][NextOperator]_vars

\* payloads are published to the two queues and the two consumer loops work them off
NextConsumer ==
    \/ \E k \in Consumers, payload \in {"json", "garbage"} : Publish(k, payload)
    \/ \E k \in Consumers : ConsumerNext(k)
    \/ \E k \in Consumers : ParsePayload(k)
    \/ \E k \in Consumers, ok \in BOOLEAN : RunHandler(k, ok)
    \/ \E k \in Consumers, ok \in BOOLEAN : AckMessage(k, ok)
    \/ \E k \in Consumers : LoopSleep(k)
SpecConsumer == Init /\ [][NextConsumer]_vars

\* the ranker is asked, at some time and for some limit, over a table of slots of which
\* some have started, some are full and some are open
MaxLimit == 3
InitRanker ==
    /\ slots \in [SlotIds -> {NoSlot} \cup [exists : {TRUE}, max_user : 1..MaxCap,
                                             time : Times, place : {1}]]
    /\ \E f \in [Recipients -> {0} \cup SlotIds] :
          /\ \A r \in Recipients : f[r] /= 0 => slots[f[r]].exists
          /\ records = [p \in Recipients \X SlotIds |-> IF f[p[1]] = p[2] THEN 1 ELSE 0]
    /\ nextSlotId = NumSlots + 1
    /\ bk = [t \in Tasks |-> IdleTask]
    /\ pre = NoRecords
    /\ VotingRest
    /\ ConsumerInit
    /\ BroadcastInit
NextRanker ==
    \/ \E limit \in 0..MaxLimit, t \in 0..NumTimes, later \in 0..1 :
            get_best_slots_for_booking(1, limit, t, t + later)
    \/ Return(1)
SpecRanker == InitRanker /\ [][NextRanker]_vars

\* ------------------------------------------------------------------ booking properties
Min(a, b) == IF a < b THEN a ELSE b

\* C2: in every reachable state every slot holds at most capacity(S) booking rows,
\* whatever the interleaving of Book, UpdateSlot, booking deletion and slot deletion.
C2_CapacityRespected ==
    \A s \in SlotIds : slots[s].exists => BookedCount(records, s) <= slots[s].max_user

\* C7: in every reachable state each recipient has at most one booking row, also when
\* two Book calls for the same recipient interleave.
C7_OneBookingPerRecipient ==
    \A r \in Recipients : RowsOf(records, r) <= 1

RaceDone == \A t \in Recipients : bk[t].pc \in {"idle", "done"}
RaceCalled == {t \in Recipients : bk[t].pc = "done"}
RaceOk == {t \in RaceCalled : bk[t].res.kind = "Ok"}
RaceFull ==
    {t \in RaceCalled : bk[t].res = [kind |-> "SlotFull",
                                      max_users |-> slots[RaceSlot].max_user,
                                      current_count |-> slots[RaceSlot].max_user]}

\* C3: N concurrent Book calls by N distinct recipients on a fresh slot of capacity C
\* end with exactly min(N,C) successes, N - min(N,C) SlotFull{C,C} errors and
\* min(N,C) booking rows.
C3_RaceOutcome ==
    RaceDone =>
        LET N == Cardinality(RaceCalled)
            C == slots[RaceSlot].max_user
        IN  /\ Cardinality(RaceOk) = Min(N, C)
            /\ Cardinality(RaceFull) = N - Min(N, C)
            /\ BookedCount(records, RaceSlot) = Min(N, C)

\* every recipient called, more callers than seats: somebody was turned away
C3_Witness ==
    /\ RaceDone
    /\ RaceCalled = Recipients
    /\ slots[RaceSlot].max_user = MaxCap
    /\ MaxCap < NumRecipients
    /\ RaceFull /= {}
    /\ Cardinality(RaceOk) = MaxCap

BookReturned(t) == bk[t].pc = "done" /\ bk[t].op = "Book"

\* the call of task t found r booked once, in another slot, and a free seat in its target
RebookCase(t) ==
    /\ BookReturned(t)
    /\ RowsOf(pre, bk[t].tg) = 1
    /\ pre[<<bk[t].tg, bk[t].slot>>] = 0
    /\ slots[bk[t].slot].exists
    /\ BookedCount(pre, bk[t].slot) < slots[bk[t].slot].max_user

\* C8: a sequential Book(r,S2) after Book(r,S1), S2 having a free seat, leaves exactly
\* one row for r, referencing S2; S1 counts one less and S2 one more than before.
C8_RebookReplaces ==
    \A t \in Clients :
        RebookCase(t) =>
            LET r == bk[t].tg
                s2 == bk[t].slot
                s1 == CHOOSE s \in SlotIds : pre[<<r, s>>] = 1
            IN  /\ bk[t].res.kind = "Ok"
                /\ RowsOf(records, r) = 1
                /\ records[<<r, s2>>] = 1
                /\ BookedCount(records, s1) = BookedCount(pre, s1) - 1
                /\ BookedCount(records, s2) = BookedCount(pre, s2) + 1

C8_Witness ==
    \E t \in Clients :
        /\ RebookCase(t)
        /\ bk[t].res.kind = "Ok"
        /\ records[<<bk[t].tg, bk[t].slot>>] = 1

\* the call of task t found its target slot holding exactly capacity rows, none of r
AtCapacityCase(t) ==
    /\ BookReturned(t)
    /\ pre[<<bk[t].tg, bk[t].slot>>] = 0
    /\ slots[bk[t].slot].exists
    /\ BookedCount(pre, bk[t].slot) = slots[bk[t].slot].max_user

\* C9: Book(r,S) by a recipient not booked in S, S holding exactly capacity(S) rows,
\* inserts no row and fails with SlotFull{capacity, capacity}.
C9_FullSlotRejected ==
    \A t \in Clients :
        AtCapacityCase(t) =>
            /\ bk[t].res = [kind |-> "SlotFull",
                            max_users |-> slots[bk[t].slot].max_user,
                            current_count |-> slots[bk[t].slot].max_user]
            /\ RowsOf(records, bk[t].tg) = 0
            /\ BookedCount(records, bk[t].slot) = slots[bk[t].slot].max_user

C9_Witness ==
    \E t \in Clients :
        /\ AtCapacityCase(t)
        /\ slots[bk[t].slot].max_user >= 1
        /\ bk[t].res.kind = "SlotFull"

\* ------------------------------------------------------------------ voting properties
ClaimRows(c) == {r \in votes : r.survey_id = c /\ r.comment = Processing}
HandedTo(v, c) == vt[v].pc = "done" /\ vt[v].res = Handed(c)

\* C1: two distinct reviewers running GetNextSurvey concurrently are never both handed
\* the same candidate, and no candidate ever has claim rows of two different reviewers.
C1_NoSharedCandidate ==
    /\ \A v1, v2 \in Reviewers, c \in Candidates :
            HandedTo(v1, c) /\ HandedTo(v2, c) => v1 = v2
    /\ \A c \in Candidates : \A r1, r2 \in ClaimRows(c) : r1.voter = r2.voter

PairRows(c, v) == {r \in votes : r.survey_id = c /\ r.voter = v}

\* C6: there is at most one vote row per (survey, voter); a SubmitVote that found the
\* voter's claim row leaves that same row, now carrying the submitted decision and
\* comment, as the only row of the pair.
C6_OneRowPerPair ==
    /\ \A r1, r2 \in votes :
            r1.survey_id = r2.survey_id /\ r1.voter = r2.voter => r1 = r2
    /\ \A v \in Reviewers :
            vt[v].pc = "cv_read" /\ vt[v].existing /= NoId =>
                PairRows(vt[v].req.survey, v) =
                    {[id |-> vt[v].existing, survey_id |-> vt[v].req.survey, voter |-> v,
                      decision |-> vt[v].req.decision, comment |-> vt[v].req.comment]}

C6_Witness ==
    \E v \in Reviewers :
        /\ vt[v].pc = "cv_read"
        /\ vt[v].existing /= NoId
        /\ \E r \in votes : r.id = vt[v].existing /\ r.comment = "text" /\ r.decision = 1

\* the step in which find_survey_for_regular_user picks a candidate for v
PicksRegular(v) ==
    /\ vt[v].pc = "gns_find"
    /\ vt'[v].pc = "gns_clear2"

\* C10: a reviewer whose role is not 1 is only routed a candidate that, when it was
\* selected, had fewer than K real votes and no claim row of anyone; a candidate
\* with K real votes is never handed to such a reviewer.
C10_RegularEligibility ==
    [][\A v \in Reviewers :
          /\ PicksRegular(v) =>
                /\ vt[v].role /= 1
                /\ vt'[v].pick \in Candidates
                /\ RealCount(votes, vt'[v].pick) < MIN_VOTES_FOR_REVIEW
                /\ ClaimRows(vt'[v].pick) = {}
          /\ (vt[v].role /= 1 /\ vt'[v].pc = "done" /\ vt'[v].res.kind = "Survey"
                /\ vt[v].pc /= "done") =>
                /\ vt[v].pc = "gns_votes"
                /\ vt'[v].res.survey = vt[v].pick]_vars

\* an ordinary reviewer is given a candidate while another candidate, not voted by
\* the reviewer, stands at exactly K real votes
C10_Witness ==
    \E v \in Reviewers :
        /\ vt[v].role /= 1
        /\ vt[v].pc = "gns_clear2"
        /\ vt[v].pick \in Candidates
        /\ \E d \in Candidates \ {vt[v].pick} :
              /\ RealCount(votes, d) = MIN_VOTES_FOR_REVIEW
              /\ PairRows(d, v) = {}

Privileged(v) == v \in Reviewers /\ user_roles[v] = 1

\* C11: no candidate is at once eligible for an ordinary reviewer (who has not voted on
\* it) and for a privileged reviewer, and no candidate ever carries claim rows of an
\* ordinary and of a privileged reviewer together.
C11_DisjointEligibility ==
    /\ RegularCandidates(votes, {})
            \cap ResponsibleCandidates([c \in Candidates |-> TotalCount(votes, c)],
                                       ResponsibleVotes(votes, user_roles)) = {}
    /\ \A c \in Candidates : \A r1, r2 \in ClaimRows(c) :
            Privileged(r1.voter) = Privileged(r2.voter)

\* a voter with role 1 has a row on c whose comment is not a reserved sentinel
HasPrivilegedVote(c) ==
    \E r \in RealRows(votes, c) : Privileged(r.voter)

\* C12: the status a summary reports for c is Completed exactly when a voter with
\* role 1 has a row on c whose comment is not reserved; otherwise ReadyForReview at
\* K real votes or more and InProgress below.  (Stated for a summary whose tally is
\* still the table's when the status is computed.)
C12_SurveyStatus ==
    [][\A v \in Reviewers :
          (/\ vt[v].pc = "sm_resp"
           /\ vt'[v].pc = "done"
           /\ vt[v].sm.total_votes = RealCount(votes, vt[v].pick)) =>
                vt'[v].sm.status =
                    IF HasPrivilegedVote(vt[v].pick) THEN "Completed"
                    ELSE IF RealCount(votes, vt[v].pick) >= MIN_VOTES_FOR_REVIEW
                         THEN "ReadyForReview"
                    ELSE "InProgress"]_vars

\* ------------------------------------------------------------------ broadcast properties
\* nothing is queued, nobody is in the middle of a request
Drained ==
    /\ events = << >>
    /\ commands = << >>
    /\ ew.pc = "idle"
    /\ api.pc = "idle"

\* C4: after CreateBroadcast with recipients R, once the workers have processed every
\* queued delivery, the summary has sent + failed = total_users = |R|, pending = 0 and
\* status Completed.
C4_SummaryConverges ==
    \A b \in BroadcastIds :
        (/\ Drained
         /\ broadcast_summaries[b].exists
         /\ hist[b].handled >= 1
         /\ CreatedEvent(b).target_users /= {}) =>
            /\ broadcast_summaries[b].total_users = Cardinality(CreatedEvent(b).target_users)
            /\ broadcast_summaries[b].sent_count + broadcast_summaries[b].failed_count
                    = broadcast_summaries[b].total_users
            /\ broadcast_summaries[b].pending_count = 0
            /\ broadcast_summaries[b].status = "completed"

\* C5: the event worker handling a BroadcastCreated event it has already handled
\* creates no message row, publishes no delivery command and leaves the summary as
\* it was.
C5_ReplayIsNoOp ==
    [][(/\ ew' /= ew
        /\ ew.pc /= "idle"
        /\ hist[ew.ev.broadcast_id].handled >= 1) =>
            /\ broadcast_summaries' = broadcast_summaries
            /\ broadcast_messages' = broadcast_messages
            /\ commands' = commands]_vars

\* C13: within each broadcast id the version values of the stored events are strictly
\* increasing in insertion order.
C13_VersionsIncrease ==
    \A i, j \in 1..Len(broadcast_events) :
        (i < j /\ broadcast_events[i].broadcast_id = broadcast_events[j].broadcast_id) =>
            broadcast_events[i].version < broadcast_events[j].version

\* C14: the event log is append-only: no step of CancelBroadcast, RetryMessage or the
\* operator's delete of a broadcast removes a stored event or changes one of its fields.
C14_LogAppendOnly ==
    [][\A i \in 1..Len(broadcast_events) :
          /\ i <= Len(broadcast_events')
          /\ broadcast_events'[i] = broadcast_events[i]]_vars

C16_ProjectionMonotone ==
    [][\A w \in Workers :
          (/\ dw[w].pc = "dw_write"
           /\ dw'[w].pc = "idle"
           /\ broadcast_summaries[dw[w].cmd.broadcast_id].exists) =>
                LET old == broadcast_summaries[dw[w].cmd.broadcast_id]
                    new == broadcast_summaries'[dw[w].cmd.broadcast_id]
                IN  /\ new.sent_count >= old.sent_count
                    /\ new.failed_count >= old.failed_count
                    /\ ~(old.status = "completed" /\ new.status = "in_progress")]_vars

\* the MessageSent and MessageFailed events stored for b
OutcomeEvents(b) ==
    {i \in 1..Len(broadcast_events) :
        /\ broadcast_events[i].broadcast_id = b
        /\ broadcast_events[i].event_type \in {"MessageSent", "MessageFailed"}}

\* C17: every delivery command the delivery worker has processed left exactly one
\* outcome event, MessageSent or MessageFailed, in the log of its broadcast.
C17_OneOutcomeEvent ==
    \A b \in BroadcastIds :
        (\A w \in Workers : dw[w].cmd.broadcast_id /= b) =>
            Cardinality(OutcomeEvents(b)) = hist[b].processed

\* C19: CreateBroadcast with an empty recipient list changes nothing: no BroadcastCreated
\* event with no recipients is stored, no summary of zero users exists, no such event is
\* published.
C19_EmptyListRejected ==
    /\ \A i \in 1..Len(broadcast_events) :
            broadcast_events[i].event_type = "BroadcastCreated" =>
                broadcast_events[i].target_users /= {}
    /\ \A b \in BroadcastIds :
            broadcast_summaries[b].exists => broadcast_summaries[b].total_users > 0
    /\ \A i \in 1..Len(events) : events[i].target_users /= {}

\* u has a SignUp row that was Sent or Failed, in a broadcast that was not cancelled
Reached(u) ==
    \E r \in broadcast_messages :
        /\ r.telegram_id = u
        /\ r.message_type = "signup"
        /\ r.status \in {"sent", "failed"}
        /\ broadcast_summaries[r.broadcast_id].exists
        /\ broadcast_summaries[r.broadcast_id].status \in
                {"pending", "in_progress", "completed"}

\* C18: the no-response report lists exactly the recipients that have a SignUp row with
\* status Sent or Failed in a broadcast whose summary is Pending, InProgress or
\* Completed, and that have no booking row.
C18_NoResponseReport ==
    api.res = "report" =>
        api.report = {u \in Targets : Reached(u) /\ RowsOf(records, u) = 0}

\* a report that lists someone, leaves out a reached recipient who booked, and leaves
\* out a recipient whose SignUp row is still Pending or Retrying
C18_Witness ==
    /\ api.res = "report"
    /\ api.report /= {}
    /\ \E u \in Targets \ api.report :
          \/ Reached(u) /\ RowsOf(records, u) > 0
          \/ /\ RowsOf(records, u) = 0
             /\ \E r \in broadcast_messages :
                   /\ r.telegram_id = u
                   /\ r.message_type = "signup"
                   /\ r.status \in {"pending", "retrying"}
    /\ \E r \in broadcast_messages :
          /\ r.telegram_id \in api.report
          /\ broadcast_summaries[r.broadcast_id].status = "pending"
          /\ \A q \in broadcast_messages :
                q.telegram_id = r.telegram_id => q.broadcast_id = r.broadcast_id

\* C20: an UpdateSlot whose new capacity is strictly below the slot's booking count is
\* rejected in the step that starts it, and neither that step nor the rejected request's
\* return changes the slot: capacity, start time and venue keep their values.
C20_LowCapacityRejected ==
    [][\A t \in Clients :
          /\ (/\ bk[t].pc = "idle"
              /\ bk'[t].op = "UpdateSlot"
              /\ bk'[t].req.max_users /= {}
              /\ Some(bk'[t].req.max_users) < BookedCount(records, bk'[t].slot)) =>
                    /\ bk'[t].pc = "done"
                    /\ bk'[t].res.kind = "Rejected"
                    /\ slots' = slots
          /\ (/\ bk[t].op = "UpdateSlot"
              /\ bk[t].res.kind = "Rejected"
              /\ bk'[t] /= bk[t]) =>
                    /\ bk'[t] = IdleTask
                    /\ slots' = slots]_vars

\* a rejected request that also carried a new start time and a new venue, both different
\* from what the slot holds
C20_Witness ==
    \E t \in Clients :
        /\ bk[t].pc = "done"
        /\ bk[t].op = "UpdateSlot"
        /\ bk[t].res.kind = "Rejected"
        /\ slots[bk[t].slot].exists
        /\ Some(bk[t].req.max_users) < BookedCount(records, bk[t].slot)
        /\ bk[t].req.start_time /= {}
        /\ bk[t].req.place /= {}
        /\ Some(bk[t].req.start_time) /= slots[bk[t].slot].time
        /\ Some(bk[t].req.place) /= slots[bk[t].slot].place

\* C21: a Book on a slot id that does not exist (never created, or deleted) inserts no
\* booking and returns SlotNotFound.
C21_MissingSlotNotFound ==
    \A t \in Clients :
        (/\ bk[t].pc = "done"
         /\ bk[t].op = "Book"
         /\ ~slots[bk[t].slot].exists) =>
                /\ bk[t].res.kind = "SlotNotFound"
                /\ records[<<bk[t].tg, bk[t].slot>>] = 0

\* b has a stored BroadcastCreated event
HasCreatedEvent(b) ==
    \E i \in 1..Len(broadcast_events) :
        /\ broadcast_events[i].broadcast_id = b
        /\ broadcast_events[i].event_type = "BroadcastCreated"

\* C22: CreateBroadcast is atomic: a BroadcastCreated event exists for b exactly when a
\* summary row for b exists; once both writes are done the summary is Pending with
\* total_users = pending_count = number of recipients, sent_count = failed_count = 0,
\* and the handler has created no message row for b.
C22_CreateAtomic ==
    /\ \A b \in BroadcastIds : HasCreatedEvent(b) <=> broadcast_summaries[b].exists
    /\ api.pc = "cb_publish" =>
            /\ broadcast_summaries[api.b].status = "pending"
            /\ broadcast_summaries[api.b].total_users = Cardinality(api.users)
            /\ broadcast_summaries[api.b].pending_count = Cardinality(api.users)
            /\ broadcast_summaries[api.b].sent_count = 0
            /\ broadcast_summaries[api.b].failed_count = 0
            /\ \A r \in broadcast_messages : r.broadcast_id /= api.b

\* the delivery commands for (b, u) in a queue
CommandsFor(q, b, u) ==
    {i \in 1..Len(q) : q[i].broadcast_id = b /\ q[i].telegram_id = u}

\* C23: when the event worker has gone through the recipients of a BroadcastCreated
\* event with payload R, every recipient in R has a message row of the broadcast and
\* one more delivery command published, and no other recipient has been acted on.
C23_FanOutFollowsPayload ==
    [][(ew.pc = "ew_fanout" /\ ew'.pc = "ew_reread") =>
          LET b == ew.ev.broadcast_id
              R == ew.ev.target_users
          IN  \A u \in Targets :
                 IF u \in R
                 THEN /\ \E r \in broadcast_messages' :
                             r.broadcast_id = b /\ r.telegram_id = u
                      /\ Cardinality(CommandsFor(commands', b, u))
                             = Cardinality(CommandsFor(commands, b, u)) + 1
                 ELSE Cardinality(CommandsFor(commands', b, u))
                             = Cardinality(CommandsFor(commands, b, u))]_vars

\* the row of (b, u) in a table of message rows
RowOf(rows, b, u) == {r \in rows : r.broadcast_id = b /\ r.telegram_id = u}

\* C24: the delivery worker's row update for command (b, r) turns a Pending or Retrying
\* row of (b, r) into Sent with sent_at set and no error when the send succeeded, into
\* Failed with the error recorded and no sent_at when it failed; every other row stays
\* as it was, and the worker goes on to the summary projector of b.
C24_DeliveryOutcome ==
    [][\A w \in Workers :
          (dw[w].pc = "dw_update" /\ dw'[w] /= dw[w]) =>
             LET b == dw[w].cmd.broadcast_id
                 u == dw[w].cmd.telegram_id
             IN  /\ \A r \in RowOf(broadcast_messages, b, u) :
                        r.status \in {"pending", "retrying"} =>
                            \E q \in RowOf(broadcast_messages', b, u) :
                                /\ q.id = r.id
                                /\ q.retry_count = r.retry_count
                                /\ IF dw[w].status = "sent"
                                   THEN /\ q.status = "sent"
                                        /\ q.sent_at /= 0
                                        /\ q.error = "none"
                                   ELSE /\ q.status = "failed"
                                        /\ q.sent_at = 0
                                        /\ q.error /= "none"
                 /\ broadcast_messages' \ RowOf(broadcast_messages', b, u)
                        = broadcast_messages \ RowOf(broadcast_messages, b, u)
                 /\ dw'[w].pc = "dw_count"
                 /\ dw'[w].cmd = dw[w].cmd]_vars

\* a failed delivery has turned a Retrying row into Failed while the broadcast has
\* another row, which kept its status
C24_Witness ==
    \E w \in Workers :
        /\ dw[w].pc = "dw_count"
        /\ dw[w].status = "failed"
        /\ \E r \in RowOf(broadcast_messages, dw[w].cmd.broadcast_id, dw[w].cmd.telegram_id) :
              /\ r.status = "failed"
              /\ r.retry_count > 0
        /\ \E r \in broadcast_messages :
              /\ r.broadcast_id = dw[w].cmd.broadcast_id
              /\ r.telegram_id /= dw[w].cmd.telegram_id

\* C25: right after a run of the summary projector for b the stored summary is the
\* projection of b's message rows: the three counts are the numbers of Sent, Failed and
\* Pending rows, and the status is Completed when nothing is pending and total_users > 0,
\* InProgress when something is pending and total_users > 0, Pending when total_users = 0.
C25_SummaryIsProjection ==
    [][\A w \in Workers :
          (/\ dw[w].pc = "dw_write"
           /\ dw'[w].pc = "idle"
           /\ broadcast_summaries'[dw[w].cmd.broadcast_id].exists) =>
                LET b == dw[w].cmd.broadcast_id
                    s == broadcast_summaries'[b]
                IN  /\ s.sent_count = MessageCount(broadcast_messages', b, "sent")
                    /\ s.failed_count = MessageCount(broadcast_messages', b, "failed")
                    /\ s.pending_count = MessageCount(broadcast_messages', b, "pending")
                    /\ s.status = IF s.total_users = 0 THEN "pending"
                                  ELSE IF s.pending_count = 0 THEN "completed"
                                  ELSE "in_progress"]_vars

\* the status changes a message row may make
AllowedMoves ==
    {<<"pending", "sent">>, <<"pending", "failed">>, <<"failed", "retrying">>,
     <<"retrying", "sent">>, <<"retrying", "failed">>}

\* C26: a message row changes status only along Pending -> Sent, Pending -> Failed,
\* Failed -> Retrying, Retrying -> Sent, Retrying -> Failed; a Sent row never changes and
\* no row goes back to Pending.
C26_StatusMoves ==
    [][\A r \in broadcast_messages, q \in broadcast_messages' :
          (r.id = q.id /\ r.broadcast_id = q.broadcast_id /\ r.telegram_id = q.telegram_id
           /\ r.status /= q.status) => <<r.status, q.status>> \in AllowedMoves]_vars

\* C27: RetryMessage(b, r) touches only the row of recipient r in broadcast b: its row
\* update leaves the rows of every other recipient as they were, and after the
\* MessageRetrying event naming r the delivery command for r is published again.
C27_RetryActsOnItsRow ==
    [][/\ (api.pc = "rt_update" /\ api' /= api) =>
              \A r \in broadcast_messages :
                  (r.broadcast_id /= api.b \/ r.telegram_id /= api.u) =>
                        r \in broadcast_messages'
       /\ (api.pc = "rt_event" /\ api' /= api) =>
              /\ broadcast_events'[Len(broadcast_events')].telegram_id = api.u
              /\ \E i \in 1..Len(commands') :
                    commands'[i] = [broadcast_id |-> api.b, telegram_id |-> api.u]]_vars

\* C28: every message row has retry_count 0 or 1, whatever the number of fail / retry
\* cycles it went through.
C28_RetryCountCapped ==
    \A r \in broadcast_messages : r.retry_count \in {0, 1}

\* C29: RetryMessage(b, r) invoked while r's row in b is Retrying does nothing: the
\* handler never goes on to its row update and its event, so the message rows, the
\* event log and the queue stay as they were.
C29_RetryIdempotent ==
    [][(api.pc = "idle" /\ api'.pc = "rt_update") =>
            \A r \in RowOf(broadcast_messages, api'.b, api'.u) : r.status /= "retrying"]_vars

\* c has K real votes or more and no row of a privileged voter
ReviewReady(c) ==
    /\ RealCount(votes, c) >= MIN_VOTES_FOR_REVIEW
    /\ c \notin ResponsibleVotes(votes, user_roles)

\* C30: the candidate find_survey_for_responsible_user picks for a privileged reviewer
\* has at least K real votes (claim and init rows not counted) and no row of a privileged
\* voter, and is the first such candidate in directory order.
C30_PrivilegedEligibility ==
    [][\A v \in Reviewers :
          (vt[v].pc = "gns_resp" /\ vt'[v].pc = "gns_clear2") =>
                /\ vt[v].role = 1
                /\ vt'[v].pick \in Candidates
                /\ ReviewReady(vt'[v].pick)
                /\ \A d \in Candidates : d < vt'[v].pick => ~ReviewReady(d)]_vars

\* C31: among the candidates eligible for an ordinary reviewer the one picked has the
\* largest real-vote count, and among those sharing that count it is the earliest in the
\* directory listing.
C31_ClosestToThreshold ==
    [][\A v \in Reviewers :
          PicksRegular(v) =>
             LET cands == RegularCandidates(votes, vt[v].voted)
                 c == vt'[v].pick
             IN  /\ c \in cands
                 /\ \A d \in cands :
                       /\ RealCount(votes, d) <= RealCount(votes, c)
                       /\ RealCount(votes, d) = RealCount(votes, c) => c <= d]_vars

\* an ordinary reviewer was given the later candidate of the listing because it has more
\* real votes than an earlier one that was open to the reviewer as well
C31_Witness ==
    \E v \in Reviewers :
        /\ vt[v].role /= 1
        /\ vt[v].pc = "gns_clear2"
        /\ vt[v].pick \in Candidates
        /\ \E d \in Candidates :
              /\ d < vt[v].pick
              /\ PairRows(d, v) = {}
              /\ ClaimRows(d) = {}
              /\ RealCount(votes, d) < RealCount(votes, vt[v].pick)
              /\ RealCount(votes, vt[v].pick) < MIN_VOTES_FOR_REVIEW

\* C32: get_next_survey deletes the claim rows of v before it reads the set V of
\* candidates v has touched, so when the candidate is selected V names only candidates
\* on which v still has a row, and a candidate on which v held nothing but a stale claim
\* is open to v again in the same call.
C32_ClaimsClearedBeforeRouting ==
    [][\A v \in Reviewers :
          (vt[v].pc = "gns_find" /\ vt'[v].pc /= "gns_find") =>
                \A c \in vt[v].voted : PairRows(c, v) /= {}]_vars

\* the consumer loop has finished with delivery t
Finished(t) ==
    /\ deliveries[t].state \in {"unacked", "acked"}
    /\ \A k \in Consumers : cl[k].tag = t => cl[k].pc = "sleep"

\* C33 as stated: every delivery a consumer loop has finished with was acknowledged
\* exactly once, after a parse failure, a handler success and a handler failure alike; none
\* is left unacked.
C33_AckedExactlyOnce ==
    \A t \in Tags : Finished(t) => deliveries[t].acks = 1 /\ deliveries[t].state = "acked"

\* C33, amended: for every delivery it has finished with, the loop called ack_message
\* exactly once, whichever way parsing and the handler went; when that call succeeded the
\* delivery is acked exactly once, when it failed the delivery stays unacked; the loop never
\* hands a delivery back to the queue.
C33_AckCalledOnce ==
    \A t \in Tags :
        /\ Finished(t) =>
              /\ deliveries[t].ack_calls = 1
              /\ deliveries[t].outcome \in {"parse_error", "ok", "err"}
              /\ deliveries[t].acks = (IF deliveries[t].state = "acked" THEN 1 ELSE 0)
        /\ deliveries[t].acks <= deliveries[t].ack_calls
        /\ deliveries[t].ack_calls <= 1
        /\ deliveries[t].state = "ready" => deliveries[t].ack_calls = 0 /\ deliveries[t].outcome = "none"

\* the loops have finished with a delivery that failed to parse, one whose handler
\* failed and one whose handler succeeded, and all three are acked
C33_Witness ==
    \E t1, t2, t3 \in Tags :
        /\ Finished(t1) /\ Finished(t2) /\ Finished(t3)
        /\ deliveries[t1].outcome = "parse_error" /\ deliveries[t1].state = "acked"
        /\ deliveries[t2].outcome = "err" /\ deliveries[t2].state = "acked"
        /\ deliveries[t3].outcome = "ok" /\ deliveries[t3].state = "acked"

\* C34: no booking row references a slot that does not exist, also when delete_slot
\* (bookings of the slot first, then the slot) runs beside a Book of that slot.
C34_NoOrphanBooking ==
    \A r \in Recipients, s \in SlotIds : records[<<r, s>>] > 0 => slots[s].exists

\* the ranker has answered request t
Ranked(t) == bk[t].pc = "done" /\ bk[t].op = "BestSlots"

\* C35: what the slot ranker returns for limit N holds at most N slots, each starting
\* after the time of the call and with fewer bookings than places, in ascending order
\* of start time; it is empty when no slot starts after the time of the call.
C35_RankerOutput ==
    \A t \in Tasks : Ranked(t) =>
        LET out == bk[t].best IN
        /\ Len(out) <= bk[t].limit
        /\ \A i \in 1..Len(out) :
              /\ out[i].time > bk[t].at
              /\ out[i].booked_count < out[i].max_user
              /\ out[i] = SlotRow(slots, records, out[i].id)
        /\ \A i, j \in 1..Len(out) : i < j => out[i].time <= out[j].time /\ out[i].id /= out[j].id
        /\ (\A s \in SlotIds : slots[s].exists => slots[s].time <= bk[t].at) => out = << >>

\* the ranker returned two slots in order of time although the later one, having more
\* free places, has the larger weight
C35_Witness ==
    \E t \in Tasks :
        /\ Ranked(t)
        /\ Len(bk[t].best) = 2
        /\ bk[t].best[1].time < bk[t].best[2].time
        /\ calculate_slot_weight(bk[t].best[1], bk[t].at)
                < calculate_slot_weight(bk[t].best[2], bk[t].at)

\* C36: a Book that fails with SlotFull does not leave the table as it found it: the
\* caller's prior booking was deleted before the capacity check and is not put back, so
\* after the failed call the caller has no booking row at all, the other rows being
\* untouched.
C36_FailedBookDropsPrior ==
    \A t \in Tasks :
        (BookReturned(t) /\ bk[t].res.kind = "SlotFull") =>
            /\ RowsOf(records, bk[t].tg) = 0
            /\ records = DeletePrior(pre, bk[t].tg)

\* a recipient booked on one slot asked for another, full one: the call failed with
\* SlotFull and the recipient's booking is gone
C36_Witness ==
    \E t \in Tasks, s1 \in SlotIds :
        /\ BookReturned(t)
        /\ bk[t].res.kind = "SlotFull"
        /\ s1 /= bk[t].slot
        /\ pre[<<bk[t].tg, s1>>] = 1
        /\ RowsOf(records, bk[t].tg) = 0
        /\ records /= pre

\* the claim rows reviewer v holds
ClaimsOf(v) == {r \in votes : r.voter = v /\ r.comment = Processing}

\* C37: a reviewer holds at most one claim row over all candidates, however calls of
\* get_next_survey and handle_vote interleave, two calls of get_next_survey for the same
\* reviewer included.
C37_OneClaimPerReviewer ==
    \A v \in Reviewers : Cardinality(ClaimsOf(v)) <= 1

\* the rows of reviewer v on candidate c that are real votes
RealVotesOf(c, v) == {r \in RealRows(votes, c) : r.voter = v}

\* C38: get_next_survey never selects, and never returns, a candidate on which the
\* caller has a real vote row, whatever the caller's role: the candidate it returns
\* carries the caller's claim row and no other row of the caller.  The survey handle_vote
\* returns after a vote on c is therefore never c.
C38_NeverOwnVote ==
    [][\A v \in Reviewers :
          /\ (vt[v].pc \in {"gns_find", "gns_resp"} /\ vt'[v].pc = "gns_clear2") =>
                RealVotesOf(vt'[v].pick, v) = {}
          /\ (vt[v].pc = "gns_votes" /\ vt'[v].pc = "done") =>
                /\ vt'[v].res = Handed(vt[v].pick)
                /\ RealVotesOf(vt[v].pick, v) = {}
                /\ \A r \in PairRows(vt[v].pick, v) : r.comment = Processing]_vars

\* handle_vote hands an ordinary reviewer, who has a real vote on another candidate, the
\* next candidate, and a privileged reviewer with a real vote on another candidate is
\* handed one as well
C38_Witness ==
    \E v1, v2 \in Reviewers, c1, c2, d1, d2 \in Candidates :
        /\ vt[v1].role = 0 /\ vt[v2].role = 1
        /\ HandedTo(v1, c1) /\ vt[v1].op = "Vote"
        /\ d1 /= c1 /\ RealVotesOf(d1, v1) /= {}
        /\ HandedTo(v2, c2)
        /\ d2 /= c2 /\ RealVotesOf(d2, v2) /= {}

\* the real votes on c of voters whose role is not 1
OrdinaryVotes(c) == {r \in RealRows(votes, c) : ~Privileged(r.voter)}

\* C39: when every vote is a claim by get_next_survey followed by a vote on the claimed
\* candidate, no candidate ever carries more than K real votes of ordinary reviewers.
C39_AtMostKVotes ==
    \A c \in Candidates : Cardinality(OrdinaryVotes(c)) <= MIN_VOTES_FOR_REVIEW

\* worker w writes the summary of a broadcast whose status is Failed
OverwritesFailed(w) ==
    /\ dw[w].pc = "dw_write"
    /\ dw'[w].pc = "idle"
    /\ broadcast_summaries[dw[w].cmd.broadcast_id].status = "failed"

====
